---- MODULE Spec2Model ----
(***************************************************************************)
(* A model of librbd::cache::ReplicatedWriteLog (the pmem write-back log   *)
(* of src/librbd/cache/ReplicatedWriteLog.{h,cc}).                         *)
(*                                                                         *)
(* The program is written as C++ functions that mutate the members of one  *)
(* ReplicatedWriteLog object.  Each function is translated to an operator  *)
(* that takes the object's state as a record s (one field per member, with *)
(* the member's name) and returns the state after the call; the actions    *)
(* apply these operators to the variables.  Data written by aio_write      *)
(* number w into image byte b is the tag <<w, b>>; the image below the     *)
(* cache starts as <<0, b>>.  MIN_WRITE_SIZE is 1, so a block is a byte.    *)
(*                                                                         *)
(* Spec runs the write, flush, writeback, retire and shut_down paths with  *)
(* each handler as one step; SpecRead adds reads, SpecRestart a second     *)
(* rwl_init on the pool, SpecMap runs the block map alone.  SpecReaders    *)
(* lets caller threads read step by step (reader_count is not atomic),     *)
(* SpecWriteback keeps the lower layer from completing its writes, and     *)
(* SpecDeferred runs dispatch_deferred_writes of the work function step by *)
(* step against the callers' threads.  SpecReject lets the image become    *)
(* read-only between writes, SpecDiscard adds aio_discard and invalidate,  *)
(* SpecReopen runs writes, shut_down and init on the pool left behind, and *)
(* SpecAlloc runs alloc_write_resources step by step in several threads.   *)
(* SpecAppend runs append_scheduled_ops step by step in two threads on     *)
(* writes longer than one append batch, and SpecZeroExtent hands the block *)
(* map the log entries of writes that may have extents of length zero.     *)
(***************************************************************************)
EXTENDS Integers, Sequences, FiniteSets, TLC

(* ------------------------------ bounds --------------------------------- *)
NumBlocks == 2        \* size of the image, in blocks (= bytes)
MaxWrites == 2        \* aio_write calls in one run
MaxExtents == 2       \* image extents of one aio_write
MaxFlushes == 2       \* aio_flush calls in one run
RingSlots == 3        \* num_small_writes: slots allocated for the ring
MaxMapEntries == 3    \* log entries handed to the index in SpecMap
MapBlocks == 4        \* blocks the log entries of SpecMap may cover
MaxInits == 2         \* init calls on the same pool in one run
MaxLowerFailures == 1 \* writes the lower layer fails in one run
NumReaders == 2       \* caller threads that run aio_read on their own
MaxWritebackWrites == 9 \* aio_write calls in one run of SpecWriteback
MaxDeferredWrites == 4 \* aio_write calls in one run of SpecDeferred
MaxDiscards == 1 \* aio_discard and invalidate calls in one run of SpecDiscard
NumAllocators == 3    \* caller threads that run alloc_write_resources
PoolBuffers == 4      \* data buffers the heap of the pool has room for
NumAppenders == 2     \* work-queue threads that run append_scheduled_ops
AppendExtents == 9    \* image extents of the long write of SpecAppend
AppendRingSlots == 12 \* num_small_writes of the pool of SpecAppend
MaxAppendWrites == 2  \* aio_write calls in one run of SpecAppend

(* -------------------------- program constants -------------------------- *)
MIN_WRITE_SIZE == 1
MIN_WRITE_ALLOC_SIZE == 512
IN_FLIGHT_FLUSH_WRITE_LIMIT == 8
IN_FLIGHT_FLUSH_BYTES_LIMIT == 1048576
MAX_ALLOC_PER_TRANSACTION == 8
MAX_CONCURRENT_WRITES == 256
ops_appended_together == MAX_ALLOC_PER_TRANSACTION
ops_flushed_together == 4
m_persist_on_write_until_flush == TRUE
EROFS == 30
EINVAL == 22
EIO == 5

(* ------------------------------ helpers -------------------------------- *)
Min(a, b) == IF a < b THEN a ELSE b
Range(f) == {f[i] : i \in DOMAIN f}
Blocks == 0 .. (NumBlocks - 1)

RECURSIVE SeqSum(_)
SeqSum(q) == IF q = <<>> THEN 0 ELSE Head(q) + SeqSum(Tail(q))

(* The image extents (offset, length) an aio_write or aio_read may name.   *)
ImageExtents == {x \in Blocks \X (1 .. NumBlocks) : x[1] + x[2] <= NumBlocks}

(* ----------------------- extents (cc lines 32-55) ---------------------- *)
BlockExtent(block_start, block_end) ==
    [block_start |-> block_start, block_end |-> block_end]

(* offset_bytes, length_bytes and the two blocks are uint64_t: the         *)
(* subtraction wraps.  The integers of the model stop below 2^31, so the   *)
(* wrap is taken at Uint64Range = 2^30 in place of 2^64; every offset and  *)
(* length of the model is far below it and 0 - 1 is the only value that    *)
(* wraps, to the largest block number there is.                            *)
Uint64Range == 1073741824

block_extent(offset_bytes, length_bytes) ==
    BlockExtent(offset_bytes \div MIN_WRITE_SIZE,
                (((offset_bytes + length_bytes) \div MIN_WRITE_SIZE) - 1)
                   % Uint64Range)

image_extent(be) ==
    << be.block_start * MIN_WRITE_SIZE,
       (be.block_end - be.block_start + 1) * MIN_WRITE_SIZE >>

is_block_aligned(extent) ==
    ~ (extent[1] % MIN_WRITE_SIZE /= 0 \/ extent[2] % MIN_WRITE_SIZE /= 0)

(* --------------------------- WriteLogEntry ----------------------------- *)
(* A log entry is named by its position in the sequence s.entries, in the  *)
(* order the entries are constructed.                                      *)
WriteLogEntry(request, sync_point, image_offset_bytes, write_bytes) ==
    [ request |-> request,          \* the C_WriteRequest whose operation owns it
      sync_point |-> sync_point,    \* sync_point_entry
      sync_gen_number |-> 0,
      write_sequence_number |-> 0,
      image_offset_bytes |-> image_offset_bytes,
      write_bytes |-> write_bytes,
      entry_valid |-> 0, sequenced |-> 0, has_data |-> 0,
      log_entry_index |-> 0,
      referring_map_entries |-> 0,
      reader_count |-> 0,
      completed |-> FALSE, flushing |-> FALSE, flushed |-> FALSE,
      pmem_buffer |-> << >>,        \* the bytes of the data buffer
      buffer_persisted |-> FALSE,   \* pmemobj_flush + drain of the buffer
      appended |-> FALSE ]          \* its append transaction has committed

entry_block_extent(le) == block_extent(le.image_offset_bytes, le.write_bytes)

(* ----------------------------- WriteLogMap ----------------------------- *)
WriteLogMapEntry(be, log_entry) ==
    [block_start |-> be.block_start, block_end |-> be.block_end,
     log_entry |-> log_entry]

(* A comparator that orders map entries by their first block alone.        *)
CompareByBlockStart(lhs, rhs) == lhs.block_start < rhs.block_start

WriteLogMapEntryCompare(lhs, rhs) == lhs.block_end < rhs.block_start

(* std::set::equal_range / find under the comparator: the elements that    *)
(* are neither less nor greater than the key.                              *)
MapEquivalent(a, b) ==
    ~ WriteLogMapEntryCompare(a, b) /\ ~ WriteLogMapEntryCompare(b, a)

(* The elements of a set of map entries in the order of the std::set.      *)
RECURSIVE InSetOrder(_)
InSetOrder(S) ==
    IF S = {} THEN << >>
    ELSE LET first == CHOOSE x \in S :
                        \A y \in S : x.block_start <= y.block_start
         IN  << first >> \o InSetOrder(S \ {first})

find_map_entries_locked(s, be) ==
    InSetOrder({me \in s.m_block_to_log_entry_map : MapEquivalent(me, be)})

(* std::set::find: the first element in set order equivalent to the key,   *)
(* or the empty set when there is none.                                    *)
MapFind(map, key) ==
    LET eq == InSetOrder({x \in map : MapEquivalent(x, key)})
    IN  IF eq = << >> THEN {} ELSE {Head(eq)}

RefAdd(s, e, d) ==
    [s EXCEPT !.entries[e].referring_map_entries = @ + d]

Fail(s, what) == IF s.failure = "" THEN [s EXCEPT !.failure = what] ELSE s

add_map_entry_locked(s, map_entry) ==
    LET clash == \E x \in s.m_block_to_log_entry_map :
                    MapEquivalent(x, map_entry)
        s1 == IF clash THEN s
              ELSE [s EXCEPT !.m_block_to_log_entry_map = @ \cup {map_entry}]
    IN  RefAdd(s1, map_entry.log_entry, 1)

remove_map_entry_locked(s, map_entry) ==
    LET found == MapFind(s.m_block_to_log_entry_map, map_entry)
    IN  IF found = {} THEN Fail(s, "assert it != end")
        ELSE LET erased == CHOOSE x \in found : TRUE
                 s1 == [s EXCEPT !.m_block_to_log_entry_map = @ \ {erased}]
             IN  RefAdd(s1, erased.log_entry, -1)

MapInsert(map, me) ==
    IF \E x \in map : MapEquivalent(x, me) THEN map ELSE map \cup {me}

adjust_map_entry_locked(s, map_entry, new_extent) ==
    LET found == MapFind(s.m_block_to_log_entry_map, map_entry)
    IN  IF found = {} THEN Fail(s, "assert it != end")
        ELSE LET adjusted == CHOOSE x \in found : TRUE
             IN  [s EXCEPT !.m_block_to_log_entry_map =
                     MapInsert(@ \ {adjusted},
                               WriteLogMapEntry(new_extent, adjusted.log_entry))]

(* A split that leaves the reference count of the log entry as it was.     *)
SplitWithoutReference(s, map_entry, removed_extent) ==
    LET found == MapFind(s.m_block_to_log_entry_map, map_entry)
    IN  IF found = {} THEN Fail(s, "assert it != end")
        ELSE LET split == CHOOSE x \in found : TRUE
                 left_extent == BlockExtent(split.block_start,
                                            removed_extent.block_start - 1)
                 right_extent == BlockExtent(removed_extent.block_end + 1,
                                             split.block_end)
                 m1 == s.m_block_to_log_entry_map \ {split}
                 m2 == MapInsert(m1, WriteLogMapEntry(left_extent, split.log_entry))
                 m3 == MapInsert(m2, WriteLogMapEntry(right_extent, split.log_entry))
             IN  [s EXCEPT !.m_block_to_log_entry_map = m3]

split_map_entry_locked(s, map_entry, removed_extent) ==
    LET found == MapFind(s.m_block_to_log_entry_map, map_entry)
    IN  IF found = {} THEN Fail(s, "assert it != end")
        ELSE LET split == CHOOSE x \in found : TRUE
                 left_extent == BlockExtent(split.block_start,
                                            removed_extent.block_start - 1)
                 right_extent == BlockExtent(removed_extent.block_end + 1,
                                             split.block_end)
                 m1 == s.m_block_to_log_entry_map \ {split}
                 m2 == MapInsert(m1, WriteLogMapEntry(left_extent, split.log_entry))
                 m3 == MapInsert(m2, WriteLogMapEntry(right_extent, split.log_entry))
             IN  RefAdd([s EXCEPT !.m_block_to_log_entry_map = m3],
                        split.log_entry, 1)

(* One pass of the loop of add_log_entry_locked over an overlapping entry. *)
OccludeMapEntry(s, map_entry, entry) ==
    IF map_entry.block_start <= entry.block_start
    THEN IF map_entry.block_end >= entry.block_end
         THEN remove_map_entry_locked(s, entry)
         ELSE adjust_map_entry_locked(s, entry,
                  BlockExtent(map_entry.block_end + 1, entry.block_end))
    ELSE IF map_entry.block_end >= entry.block_end
         THEN adjust_map_entry_locked(s, entry,
                  BlockExtent(entry.block_start, map_entry.block_start - 1))
         ELSE split_map_entry_locked(s, entry, map_entry)

RECURSIVE OccludeAll(_, _, _)
OccludeAll(s, map_entry, overlap_entries) ==
    IF overlap_entries = << >> THEN s
    ELSE OccludeAll(OccludeMapEntry(s, map_entry, Head(overlap_entries)),
                    map_entry, Tail(overlap_entries))

add_log_entry_locked(s, e) ==
    LET map_entry == WriteLogMapEntry(entry_block_extent(s.entries[e]), e)
        overlap_entries == find_map_entries_locked(s, map_entry)
    IN  add_map_entry_locked(OccludeAll(s, map_entry, overlap_entries), map_entry)

RECURSIVE add_log_entries(_, _)
add_log_entries(s, log_entries) ==
    IF log_entries = << >> THEN s
    ELSE add_log_entries(add_log_entry_locked(s, Head(log_entries)),
                         Tail(log_entries))

RECURSIVE RemoveHits(_, _, _)
RemoveHits(s, e, possible_hits) ==
    IF possible_hits = << >> THEN s
    ELSE RemoveHits(IF Head(possible_hits).log_entry = e
                    THEN remove_map_entry_locked(s, Head(possible_hits))
                    ELSE s,
                    e, Tail(possible_hits))

remove_log_entry_locked(s, e) ==
    RemoveHits(s, e,
               find_map_entries_locked(s, entry_block_extent(s.entries[e])))

(* ------------------------------ state ---------------------------------- *)
VARIABLES
    entries,   \* every WriteLogEntry constructed so far, by identity
    m_block_to_log_entry_map,   \* WriteLogMap: the set of map entries
    m_log_entries,   \* appended, unretired entries, oldest first
    m_dirty_log_entries,   \* entries still to be written back
    m_first_free_entry,
    m_first_valid_entry,
    m_total_log_entries,
    m_free_log_entries,
    m_free_lanes,
    m_unpublished_reserves,
    m_persist_on_flush,
    m_flush_seen,
    m_current_sync_gen,
    m_last_op_sequence_num,
    m_current_sync_point,
    sync_points,   \* every SyncPoint constructed so far, by identity
    m_deferred_ios,
    m_ops_to_flush,
    m_ops_to_append,
    m_wake_up_requested,
    m_wake_up_scheduled,
    m_wake_up_enabled,
    m_flush_ops_in_flight,
    m_flush_bytes_in_flight,
    m_flush_complete_contexts,
    m_async_op_tracker,   \* AsyncOpTracker: pending count and waiter
    m_write_log_guard,   \* BlockGuard: the detained cells
    writes,   \* every C_WriteRequest, in the order of the aio_write calls
    flushes,   \* every aio_flush call and its callback
    op_work_queue,   \* m_image_ctx.op_work_queue: queued contexts
    worker,   \* position of the work-queue thread inside process_work
    pool_root,   \* WriteLogPoolRoot and the ring slots in pmem
    lower,   \* m_image_writeback: image content and writes in flight
    last_read,   \* the bufferlist of the latest aio_read, until destroyed
    readers,   \* caller threads inside aio_read or a buffer deleter
    discards,   \* the aio_discard and invalidate requests, in call order
    allocs,   \* caller threads inside alloc_write_resources, step by step
    appenders,   \* work-queue threads inside append_scheduled_ops
    shut,   \* progress of shut_down and the number of init calls
    read_only,   \* m_image_ctx.read_only
    failure   \* the assertion or lock error that stopped the process

vars == << entries, m_block_to_log_entry_map, m_log_entries, m_dirty_log_entries,
          m_first_free_entry, m_first_valid_entry, m_total_log_entries, m_free_log_entries,
          m_free_lanes, m_unpublished_reserves, m_persist_on_flush, m_flush_seen,
          m_current_sync_gen, m_last_op_sequence_num, m_current_sync_point, sync_points,
          m_deferred_ios, m_ops_to_flush, m_ops_to_append, m_wake_up_requested,
          m_wake_up_scheduled, m_wake_up_enabled, m_flush_ops_in_flight, m_flush_bytes_in_flight,
          m_flush_complete_contexts, m_async_op_tracker, m_write_log_guard, writes,
          flushes, op_work_queue, worker, pool_root,
          lower, last_read, readers, discards, allocs, appenders, shut, read_only,
       failure >>

(* The state as one record, for the operators that model the functions.  *)
CurState ==
    [ entries |-> entries,
      m_block_to_log_entry_map |-> m_block_to_log_entry_map,
      m_log_entries |-> m_log_entries,
      m_dirty_log_entries |-> m_dirty_log_entries,
      m_first_free_entry |-> m_first_free_entry,
      m_first_valid_entry |-> m_first_valid_entry,
      m_total_log_entries |-> m_total_log_entries,
      m_free_log_entries |-> m_free_log_entries,
      m_free_lanes |-> m_free_lanes,
      m_unpublished_reserves |-> m_unpublished_reserves,
      m_persist_on_flush |-> m_persist_on_flush,
      m_flush_seen |-> m_flush_seen,
      m_current_sync_gen |-> m_current_sync_gen,
      m_last_op_sequence_num |-> m_last_op_sequence_num,
      m_current_sync_point |-> m_current_sync_point,
      sync_points |-> sync_points,
      m_deferred_ios |-> m_deferred_ios,
      m_ops_to_flush |-> m_ops_to_flush,
      m_ops_to_append |-> m_ops_to_append,
      m_wake_up_requested |-> m_wake_up_requested,
      m_wake_up_scheduled |-> m_wake_up_scheduled,
      m_wake_up_enabled |-> m_wake_up_enabled,
      m_flush_ops_in_flight |-> m_flush_ops_in_flight,
      m_flush_bytes_in_flight |-> m_flush_bytes_in_flight,
      m_flush_complete_contexts |-> m_flush_complete_contexts,
      m_async_op_tracker |-> m_async_op_tracker,
      m_write_log_guard |-> m_write_log_guard,
      writes |-> writes,
      flushes |-> flushes,
      op_work_queue |-> op_work_queue,
      worker |-> worker,
      pool_root |-> pool_root,
      lower |-> lower,
      last_read |-> last_read,
      readers |-> readers,
      discards |-> discards,
      allocs |-> allocs,
      appenders |-> appenders,
      shut |-> shut,
      read_only |-> read_only,
      failure |-> failure ]

SetState(t) ==
    /\ entries' = t.entries
    /\ m_block_to_log_entry_map' = t.m_block_to_log_entry_map
    /\ m_log_entries' = t.m_log_entries
    /\ m_dirty_log_entries' = t.m_dirty_log_entries
    /\ m_first_free_entry' = t.m_first_free_entry
    /\ m_first_valid_entry' = t.m_first_valid_entry
    /\ m_total_log_entries' = t.m_total_log_entries
    /\ m_free_log_entries' = t.m_free_log_entries
    /\ m_free_lanes' = t.m_free_lanes
    /\ m_unpublished_reserves' = t.m_unpublished_reserves
    /\ m_persist_on_flush' = t.m_persist_on_flush
    /\ m_flush_seen' = t.m_flush_seen
    /\ m_current_sync_gen' = t.m_current_sync_gen
    /\ m_last_op_sequence_num' = t.m_last_op_sequence_num
    /\ m_current_sync_point' = t.m_current_sync_point
    /\ sync_points' = t.sync_points
    /\ m_deferred_ios' = t.m_deferred_ios
    /\ m_ops_to_flush' = t.m_ops_to_flush
    /\ m_ops_to_append' = t.m_ops_to_append
    /\ m_wake_up_requested' = t.m_wake_up_requested
    /\ m_wake_up_scheduled' = t.m_wake_up_scheduled
    /\ m_wake_up_enabled' = t.m_wake_up_enabled
    /\ m_flush_ops_in_flight' = t.m_flush_ops_in_flight
    /\ m_flush_bytes_in_flight' = t.m_flush_bytes_in_flight
    /\ m_flush_complete_contexts' = t.m_flush_complete_contexts
    /\ m_async_op_tracker' = t.m_async_op_tracker
    /\ m_write_log_guard' = t.m_write_log_guard
    /\ writes' = t.writes
    /\ flushes' = t.flushes
    /\ op_work_queue' = t.op_work_queue
    /\ worker' = t.worker
    /\ pool_root' = t.pool_root
    /\ lower' = t.lower
    /\ last_read' = t.last_read
    /\ readers' = t.readers
    /\ discards' = t.discards
    /\ allocs' = t.allocs
    /\ appenders' = t.appenders
    /\ shut' = t.shut
    /\ read_only' = t.read_only
    /\ failure' = t.failure

StateIs(t) ==
    /\ entries = t.entries
    /\ m_block_to_log_entry_map = t.m_block_to_log_entry_map
    /\ m_log_entries = t.m_log_entries
    /\ m_dirty_log_entries = t.m_dirty_log_entries
    /\ m_first_free_entry = t.m_first_free_entry
    /\ m_first_valid_entry = t.m_first_valid_entry
    /\ m_total_log_entries = t.m_total_log_entries
    /\ m_free_log_entries = t.m_free_log_entries
    /\ m_free_lanes = t.m_free_lanes
    /\ m_unpublished_reserves = t.m_unpublished_reserves
    /\ m_persist_on_flush = t.m_persist_on_flush
    /\ m_flush_seen = t.m_flush_seen
    /\ m_current_sync_gen = t.m_current_sync_gen
    /\ m_last_op_sequence_num = t.m_last_op_sequence_num
    /\ m_current_sync_point = t.m_current_sync_point
    /\ sync_points = t.sync_points
    /\ m_deferred_ios = t.m_deferred_ios
    /\ m_ops_to_flush = t.m_ops_to_flush
    /\ m_ops_to_append = t.m_ops_to_append
    /\ m_wake_up_requested = t.m_wake_up_requested
    /\ m_wake_up_scheduled = t.m_wake_up_scheduled
    /\ m_wake_up_enabled = t.m_wake_up_enabled
    /\ m_flush_ops_in_flight = t.m_flush_ops_in_flight
    /\ m_flush_bytes_in_flight = t.m_flush_bytes_in_flight
    /\ m_flush_complete_contexts = t.m_flush_complete_contexts
    /\ m_async_op_tracker = t.m_async_op_tracker
    /\ m_write_log_guard = t.m_write_log_guard
    /\ writes = t.writes
    /\ flushes = t.flushes
    /\ op_work_queue = t.op_work_queue
    /\ worker = t.worker
    /\ pool_root = t.pool_root
    /\ lower = t.lower
    /\ last_read = t.last_read
    /\ readers = t.readers
    /\ discards = t.discards
    /\ allocs = t.allocs
    /\ appenders = t.appenders
    /\ shut = t.shut
    /\ read_only = t.read_only
    /\ failure = t.failure

(* ------------------- work queue and AsyncOpTracker --------------------- *)
(* A context queued on m_image_ctx.op_work_queue.  The queue is served by   *)
(* one thread, in order.                                                    *)
Ctx(type, ops) == [type |-> type, ops |-> ops]

Queue(s, ctx) == [s EXCEPT !.op_work_queue = Append(@, ctx)]

start_op(s) == [s EXCEPT !.m_async_op_tracker.pending = @ + 1]

finish_op(s) ==
    LET s1 == [s EXCEPT !.m_async_op_tracker.pending = @ - 1]
    IN  IF s1.m_async_op_tracker.pending = 0 /\ s1.m_async_op_tracker.waiter /= ""
        THEN Queue([s1 EXCEPT !.m_async_op_tracker.waiter = ""],
                   Ctx(s1.m_async_op_tracker.waiter, << >>))
        ELSE s1

tracker_wait(s, on_finish) ==
    IF s.m_async_op_tracker.pending = 0
    THEN Queue(s, Ctx(on_finish, << >>))
    ELSE [s EXCEPT !.m_async_op_tracker.waiter = on_finish]

(* A wake_up that queues the work function whenever it is called.          *)
WakeUpUnguarded(s) ==
    IF ~ s.m_wake_up_enabled THEN s
    ELSE Queue(start_op([s EXCEPT !.m_wake_up_requested = TRUE,
                                  !.m_wake_up_scheduled = TRUE]),
               Ctx("process_work", << >>))

wake_up(s) ==
    IF ~ s.m_wake_up_enabled THEN s
    ELSE IF s.m_wake_up_requested /\ s.m_wake_up_scheduled THEN s
    ELSE LET s1 == [s EXCEPT !.m_wake_up_requested = TRUE]
         IN  IF s.m_wake_up_scheduled THEN s1
             ELSE Queue(start_op([s1 EXCEPT !.m_wake_up_scheduled = TRUE]),
                        Ctx("process_work", << >>))

(* ----------------------------- callbacks ------------------------------- *)
(* Every log entry of write w has been covered by a committed append       *)
(* transaction.                                                            *)
WriteAppended(s, w) ==
    /\ s.writes[w].operations /= << >>
    /\ \A i \in DOMAIN s.writes[w].operations :
          s.entries[s.writes[w].operations[i]].appended

(* user_req->complete(r): the caller's on_finish of aio_write number w.    *)
UserReqComplete(s, w, r) ==
    [s EXCEPT !.writes[w].user_req_calls = Min(@ + 1, 2),
              !.writes[w].user_req_result = r,
              !.writes[w].acked_appended = WriteAppended(s, w)]

(* A completion without the test-and-set of m_user_req_completed.        *)
CompleteUnguarded(s, w, r) ==
    UserReqComplete([s EXCEPT !.writes[w].m_user_req_completed = TRUE], w, r)

complete_user_request(s, w, r) ==
    IF ~ s.writes[w].m_user_req_completed
    THEN UserReqComplete([s EXCEPT !.writes[w].m_user_req_completed = TRUE], w, r)
    ELSE s

(* on_finish->complete(r) of aio_flush number f.                           *)
FlushCallback(s, f, r) ==
    [s EXCEPT !.flushes[f].calls = Min(@ + 1, 2),
              !.flushes[f].result = r,
              !.flushes[f].prior_appended =
                  \A w \in s.flushes[f].prior : WriteAppended(s, w)]

(* ------------------------------ SyncPoint ------------------------------ *)
(* m_prior_log_entries_persisted is a C_Gather: sub_existing counts the    *)
(* subs not yet completed, and the finisher runs, in the thread that       *)
(* completes the last sub or that activates, whichever comes later.        *)
SyncPoint(sync_gen_num) ==
    [ sync_gen_num |-> sync_gen_num,
      m_writes |-> 0, m_writes_completed |-> 0,
      sub_existing |-> 0, activated |-> FALSE, persisted |-> FALSE,
      append_calls |-> 0,             \* times append_sync_point ran for it
      ops_persisted |-> FALSE,        \* its operations were appended by then
      m_prior_log_entries_persisted_status |-> 0,
      m_final_op_sequence_num |-> 0,
      earlier_sync_point |-> 0, later_sync_point |-> 0,
      m_on_sync_point_persisted |-> << >> ]

RECURSIVE append_sync_point(_, _, _, _)
RECURSIVE finish_contexts(_, _, _)
RECURSIVE SyncPointSubFinish(_, _, _)

(* The caller holds m_lock when m_lock_held; m_lock is not recursive.      *)
append_sync_point(s, sync_point, status, m_lock_held) ==
    LET s0 == [s EXCEPT
                 !.sync_points[sync_point].m_prior_log_entries_persisted_status = status,
                 !.sync_points[sync_point].append_calls = Min(@ + 1, 2),
                 !.sync_points[sync_point].ops_persisted =
                     \A e \in DOMAIN s.entries :
                        s.entries[e].sync_point = sync_point
                        => s.entries[e].appended /\ s.entries[e].completed]
    IN  IF m_lock_held THEN Fail(s0, "m_lock locked again by its owner")
        ELSE IF s.sync_points[sync_point].later_sync_point = 0
        THEN Fail(s0, "assert sync_point->later_sync_point")
        ELSE LET later == s.sync_points[sync_point].later_sync_point
                 contexts == s.sync_points[sync_point].m_on_sync_point_persisted
                 s1 == [s0 EXCEPT
                          !.sync_points[sync_point].persisted = TRUE,
                          !.sync_points[later].earlier_sync_point = 0,
                          !.sync_points[sync_point].m_on_sync_point_persisted = << >>]
             IN  finish_contexts(s1, contexts, status)

finish_contexts(s, contexts, r) ==
    IF contexts = << >> THEN s
    ELSE LET c == Head(contexts)
             s1 == IF c.type = "flush" THEN FlushCallback(s, c.id, r)
                   ELSE SyncPointSubFinish(s, c.id, r)
         IN  finish_contexts(s1, Tail(contexts), r)

SyncPointSubFinish(s, sync_point, r) ==
    LET s1 == [s EXCEPT !.sync_points[sync_point].sub_existing = @ - 1]
    IN  IF s1.sync_points[sync_point].activated
           /\ s1.sync_points[sync_point].sub_existing = 0
        THEN append_sync_point(s1, sync_point, r, FALSE)
        ELSE s1

SyncPointActivate(s, sync_point, m_lock_held) ==
    LET s1 == [s EXCEPT !.sync_points[sync_point].activated = TRUE]
    IN  IF s1.sync_points[sync_point].sub_existing = 0
        THEN append_sync_point(s1, sync_point, 0, m_lock_held)
        ELSE s1

new_sync_point(s) ==
    LET old_sync_point == s.m_current_sync_point
        gen == IF old_sync_point /= 0 THEN s.m_current_sync_gen + 1
               ELSE s.m_current_sync_gen
        new == Len(s.sync_points) + 1
        s1 == [s EXCEPT !.m_current_sync_gen = gen,
                        !.sync_points = Append(@, SyncPoint(gen)),
                        !.m_current_sync_point = new]
    IN  IF old_sync_point = 0 THEN s1
        ELSE LET s2 == [s1 EXCEPT
                   !.sync_points[new].earlier_sync_point = old_sync_point,
                   !.sync_points[new].sub_existing = @ + 1,
                   !.sync_points[old_sync_point].later_sync_point = new,
                   !.sync_points[old_sync_point].m_final_op_sequence_num =
                       s.m_last_op_sequence_num,
                   !.sync_points[old_sync_point].m_on_sync_point_persisted =
                       Append(@, [type |-> "sub", id |-> new])]
             IN  SyncPointActivate(s2, old_sync_point, TRUE)

(* The writes whose user callback has reported success.                    *)
AckedWrites(s) ==
    {w \in DOMAIN s.writes :
        s.writes[w].user_req_calls > 0 /\ s.writes[w].user_req_result = 0}

(* An aio_flush that completes its callback before it returns, whatever  *)
(* the state of the sync points.                                          *)
FlushCompletesAtOnce(s) ==
    LET f == Len(s.flushes) + 1
        s0 == [s EXCEPT !.flushes = Append(@,
                  [prior |-> AckedWrites(s), writes_before |-> Len(s.writes),
                   calls |-> 0, result |-> 0, prior_appended |-> FALSE,
                   persist_on_flush |-> FALSE])]
    IN  IF s.read_only THEN FlushCallback(s0, f, -EROFS)
        ELSE
        LET s1 == IF ~ s0.m_flush_seen
                  THEN [s0 EXCEPT !.m_flush_seen = TRUE,
                           !.m_persist_on_flush =
                               IF ~ @ /\ m_persist_on_write_until_flush
                               THEN TRUE ELSE @]
                  ELSE s0
            s2 == [s1 EXCEPT !.flushes[f].persist_on_flush = s1.m_persist_on_flush]
        IN  FlushCallback(s2, f, 0)

aio_flush(s) ==
    LET f == Len(s.flushes) + 1
        s0 == [s EXCEPT !.flushes = Append(@,
                  [prior |-> AckedWrites(s), writes_before |-> Len(s.writes),
                   calls |-> 0, result |-> 0, prior_appended |-> FALSE,
                   persist_on_flush |-> FALSE])]
    IN  IF s.read_only THEN FlushCallback(s0, f, -EROFS)
        ELSE
        LET s1 == IF ~ s0.m_flush_seen
                  THEN [s0 EXCEPT !.m_flush_seen = TRUE,
                           !.m_persist_on_flush =
                               IF ~ @ /\ m_persist_on_write_until_flush
                               THEN TRUE ELSE @]
                  ELSE s0
            s2 == [s1 EXCEPT !.flushes[f].persist_on_flush = s1.m_persist_on_flush]
            cur == s2.m_current_sync_point
        IN  IF s2.m_persist_on_flush
            THEN IF s2.sync_points[cur].m_writes /= 0
                 THEN new_sync_point(
                        [s2 EXCEPT !.sync_points[cur].m_on_sync_point_persisted =
                                      Append(@, [type |-> "flush", id |-> f])])
                 ELSE IF s2.sync_points[cur].earlier_sync_point /= 0
                 THEN [s2 EXCEPT
                         !.sync_points[s2.sync_points[cur].earlier_sync_point]
                            .m_on_sync_point_persisted =
                                Append(@, [type |-> "flush", id |-> f])]
                 ELSE FlushCallback(s2, f, 0)
            ELSE FlushCallback(s2, f, 0)

(* ------------------------------ BlockGuard ----------------------------- *)
(* m_write_log_guard is a set of cells; a cell is named by the request     *)
(* that holds it.  detain returns 0 and a new cell when no cell overlaps    *)
(* the range, and otherwise queues the request behind an overlapping cell.  *)
OverlappingCells(s, first, last) ==
    {c \in s.m_write_log_guard : c.first <= last /\ first <= c.last}

GuardedRequest(req, first_block_num, last_block_num) ==
    [req |-> req, first_block_num |-> first_block_num,
     last_block_num |-> last_block_num]

(* ---------------------------- ExtentsSummary --------------------------- *)
RECURSIVE SummaryScan(_, _)
SummaryScan(extents, sum) ==
    IF extents = << >> THEN sum
    ELSE LET x == Head(extents)
             s1 == [sum EXCEPT
                      !.total_bytes = @ + x[2],
                      !.first_image_byte = IF x[1] < @ THEN x[1] ELSE @,
                      !.last_image_byte =
                          IF x[1] + x[2] > @ THEN x[1] + x[2] ELSE @]
         IN  SummaryScan(Tail(extents), s1)

ExtentsSummary(extents) ==
    LET zero == [total_bytes |-> 0, first_image_byte |-> 0,
                 last_image_byte |-> 0, first_block |-> 0, last_block |-> 0]
    IN  IF extents = << >> THEN zero
        ELSE LET sum == SummaryScan(extents,
                          [zero EXCEPT
                             !.first_image_byte = extents[1][1],
                             !.last_image_byte = extents[1][1] + extents[1][2]])
             IN  [sum EXCEPT
                    !.first_block = sum.first_image_byte \div MIN_WRITE_SIZE,
                    !.last_block = sum.last_image_byte \div MIN_WRITE_SIZE]

(* The bufferlist the caller passes to aio_write number w: byte j of the   *)
(* extent at offset off carries the tag <<w, off + j>>.                    *)
RECURSIVE WriteData(_, _)
WriteData(w, extents) ==
    IF extents = << >> THEN << >>
    ELSE [j \in 1 .. Head(extents)[2] |-> << w, Head(extents)[1] + j - 1 >>]
         \o WriteData(w, Tail(extents))

C_WriteRequest(image_extents) ==
    [ m_image_extents |-> image_extents,
      m_image_extents_summary |-> ExtentsSummary(image_extents),
      m_user_req_completed |-> FALSE,
      detained |-> FALSE,
      m_cell |-> 0,
      allocated |-> FALSE,               \* m_resources.allocated
      m_op_set |-> FALSE,                \* the operation set exists
      m_persist_on_flush |-> FALSE,      \* m_op_set->m_persist_on_flush
      sync_point |-> 0,                  \* m_op_set->sync_point
      operations |-> << >>,              \* m_op_set->operations, by log entry
      m_extent_ops |-> [sub_existing |-> 0, activated |-> FALSE],
      user_req_calls |-> 0,              \* times user_req->complete ran
      user_req_result |-> 0,
      acked_appended |-> FALSE,          \* entries appended at that moment
      dispatched |-> 0,                  \* position in the dispatch order
      deferred |-> 0,                    \* position in the order of deferral
      released |-> FALSE ]               \* complete_write_req has run

(* ---------------------------- append queues ---------------------------- *)
schedule_append(s, ops) ==
    LET need_finisher == s.m_ops_to_append = << >>
        s1 == [s EXCEPT !.m_ops_to_append = @ \o ops]
    IN  IF need_finisher THEN Queue(start_op(s1), Ctx("append_ctx", << >>))
        ELSE s1

schedule_flush_and_append(s, ops) ==
    LET need_finisher == s.m_ops_to_flush = << >>
        s1 == [s EXCEPT !.m_ops_to_flush = @ \o ops]
    IN  IF need_finisher THEN Queue(start_op(s1), Ctx("flush_ctx", << >>))
        ELSE s1

(* A flush_pmem_buffer that flushes nothing.                               *)
FlushNoBuffer(s, ops) == s

flush_pmem_buffer(s, ops) ==
    [s EXCEPT !.entries = [e \in DOMAIN @ |->
        IF e \in Range(ops) THEN [@[e] EXCEPT !.buffer_persisted = TRUE]
        ELSE @[e]]]

(* ---------------------------- write pipeline --------------------------- *)
CanAllocWriteResources(s, w) ==
    LET num_extents == Len(s.writes[w].m_image_extents)
    IN  s.m_free_lanes >= num_extents /\ s.m_free_log_entries >= num_extents

(* The state after a successful alloc_write_resources; when it returns     *)
(* false the state is the one before the call.                             *)
alloc_write_resources(s, w) ==
    LET num_extents == Len(s.writes[w].m_image_extents)
    IN  IF s.writes[w].allocated
        THEN Fail(s, "assert !m_resources.allocated")
        ELSE [s EXCEPT !.m_free_lanes = @ - num_extents,
                       !.m_free_log_entries = @ - num_extents,
                       !.m_unpublished_reserves = @ + num_extents,
                       !.writes[w].allocated = TRUE]

(* alloc_write_resources step by step, as caller thread t runs it for a   *)
(* request of num_extents extents.  The steps are the two critical         *)
(* sections of m_lock, each pmemobj_reserve, and the end of the function.  *)
(* PoolReserved counts the reservations that are neither cancelled nor     *)
(* published: pmemobj_reserve fails when the heap has no room left.        *)
PoolReserved(s) ==
    LET RECURSIVE Sum(_)
        Sum(n) == IF n = 0 THEN 0 ELSE s.allocs[n].buffers + Sum(n - 1)
    IN  Sum(NumAllocators)

alloc_first_check(s, t, num_extents) ==
    IF s.allocs[t].allocated THEN Fail(s, "assert !m_resources.allocated")
    ELSE IF \/ s.m_free_lanes < num_extents
            \/ s.m_free_log_entries < num_extents
         THEN [s EXCEPT !.allocs[t] =
                 [@ EXCEPT !.pc = "returned", !.num_extents = num_extents,
                           !.ret = FALSE, !.cancelled = 0]]
         ELSE [s EXCEPT !.allocs[t] =
                 [@ EXCEPT !.pc = "reserve", !.num_extents = num_extents,
                           !.alloc_succeeds = TRUE, !.cancelled = 0]]

alloc_reserve_buffer(s, t) ==
    IF PoolReserved(s) >= PoolBuffers
    THEN [s EXCEPT !.allocs[t].alloc_succeeds = FALSE,
                   !.allocs[t].pc = "finish"]
    ELSE [s EXCEPT !.allocs[t].buffers = @ + 1,
                   !.allocs[t].pc =
                       IF s.allocs[t].buffers + 1 = s.allocs[t].num_extents
                       THEN "recheck" ELSE "reserve"]

alloc_second_check(s, t) ==
    LET num_extents == s.allocs[t].num_extents
    IN  IF s.m_free_lanes >= num_extents /\ s.m_free_log_entries >= num_extents
        THEN [s EXCEPT !.m_free_lanes = @ - num_extents,
                       !.m_free_log_entries = @ - num_extents,
                       !.m_unpublished_reserves = @ + num_extents,
                       !.allocs[t].allocated = TRUE,
                       !.allocs[t].pc = "finish"]
        ELSE [s EXCEPT !.allocs[t].alloc_succeeds = FALSE,
                       !.allocs[t].pc = "finish"]

AllocReturnKeepingBuffers(s, t) ==
    [s EXCEPT !.allocs[t].ret = s.allocs[t].alloc_succeeds,
              !.allocs[t].pc = "returned"]

alloc_return(s, t) ==
    LET a == s.allocs[t]
    IN  IF ~ a.alloc_succeeds
        THEN [s EXCEPT !.allocs[t] =
                [@ EXCEPT !.cancelled = a.buffers, !.buffers = 0,
                          !.ret = FALSE, !.pc = "returned"]]
        ELSE [s EXCEPT !.allocs[t] = [@ EXCEPT !.ret = TRUE, !.pc = "returned"]]

RECURSIVE dispatch_aio_write(_, _)

RECURSIVE dispatch_deferred_writes(_)
dispatch_deferred_writes(s) ==
    IF s.m_deferred_ios = << >> THEN s
    ELSE LET req == Head(s.m_deferred_ios)
         IN  IF ~ CanAllocWriteResources(s, req) THEN s
             ELSE LET s1 == alloc_write_resources(s, req)
                      s2 == [s1 EXCEPT !.m_deferred_ios = Tail(@)]
                      s3 == IF s2.m_deferred_ios /= << >> THEN wake_up(s2) ELSE s2
                  IN  dispatch_deferred_writes(dispatch_aio_write(s3, req))

alloc_and_dispatch_io_req(s, w) ==
    IF s.m_deferred_ios = << >> /\ CanAllocWriteResources(s, w)
    THEN dispatch_aio_write(alloc_write_resources(s, w), w)
    ELSE dispatch_deferred_writes(
           [s EXCEPT !.m_deferred_ios = Append(@, w),
                     !.writes[w].deferred =
                         1 + Cardinality({v \in DOMAIN s.writes :
                                            s.writes[v].deferred > 0})])

(* The context that flush parks for aio_discard request d.                 *)
DiscardCtx(d) == << "discard", d >>

(* invalidate(Extents&&, on_finish): the loop walks the blocks of the      *)
(* extents and changes nothing; on_finish is completed with 0 by the       *)
(* caller of this operator.                                                *)
invalidate_extents(s, image_extents) == s

(* The request is handed to m_image_writeback (invalidate or aio_discard), *)
(* which completes it later.                                               *)
DiscardToLower(s, d) ==
    [invalidate_extents(s, << s.discards[d].extent >>)
       EXCEPT !.discards[d].stage = "lower"]

RECURSIVE flush(_, _)

(* The lambdas that invalidate and aio_discard pass to the guard: the      *)
(* first goes to invalidate(Extents) and the lower layer at once, the      *)
(* second flushes the log before.                                          *)
DiscardAcquired(s, d, cell, detained) ==
    LET s1 == [s EXCEPT !.discards[d].m_cell = cell,
                        !.discards[d].detained = detained]
    IN  IF s.discards[d].kind = "invalidate" THEN DiscardToLower(s1, d)
        ELSE flush([s1 EXCEPT !.discards[d].stage = "flush",
                              !.discards[d].appended_before =
                                  {e \in DOMAIN s.entries : s.entries[e].appended}],
                   DiscardCtx(d))

(* GuardedRequestFunctionContext::acquired: the lambda of the request is   *)
(* called with the cell.  Requests of aio_write are named by the index of  *)
(* the write, those of aio_discard and invalidate by minus their index.    *)
acquired(s, w, cell, detained) ==
    IF w < 0 THEN DiscardAcquired(s, - w, cell, detained)
    ELSE alloc_and_dispatch_io_req(
        [s EXCEPT !.writes[w].detained = detained, !.writes[w].m_cell = cell], w)

AcquireWithoutGuard(s, req, detained) ==
    LET cell == [id |-> req.req, first |-> req.first_block_num,
                 last |-> req.last_block_num, block_operations |-> << >>]
    IN  acquired([s EXCEPT !.m_write_log_guard = @ \cup {cell}],
                 req.req, cell.id, detained)

detain_guarded_request(s, req, detained) ==
    LET over == OverlappingCells(s, req.first_block_num, req.last_block_num)
    IN  IF over = {}
        THEN LET cell == [id |-> req.req, first |-> req.first_block_num,
                          last |-> req.last_block_num, block_operations |-> << >>]
             IN  acquired([s EXCEPT !.m_write_log_guard = @ \cup {cell}],
                          req.req, cell.id, detained)
        ELSE LET holder == CHOOSE c \in over : \A d \in over : c.first <= d.first
             IN  [s EXCEPT !.m_write_log_guard = (@ \ {holder}) \cup
                     {[holder EXCEPT !.block_operations = Append(@, req)]}]

RECURSIVE RedetainAll(_, _)
RedetainAll(s, block_ops) ==
    IF block_ops = << >> THEN s
    ELSE RedetainAll(detain_guarded_request(s, Head(block_ops), TRUE),
                     Tail(block_ops))

release_guarded_request(s, cell) ==
    LET held == {c \in s.m_write_log_guard : c.id = cell}
    IN  IF held = {} THEN Fail(s, "release of a cell that is not held")
        ELSE LET c == CHOOSE x \in held : TRUE
             IN  RedetainAll([s EXCEPT !.m_write_log_guard = @ \ {c}],
                             c.block_operations)

ReleaseOneLane(s, w) ==
    IF ~ s.writes[w].allocated THEN Fail(s, "assert m_resources.allocated")
    ELSE dispatch_deferred_writes(
           [s EXCEPT !.m_free_lanes = @ + 1,
                     !.writes[w].allocated = FALSE])

release_write_lanes(s, w) ==
    IF ~ s.writes[w].allocated THEN Fail(s, "assert m_resources.allocated")
    ELSE dispatch_deferred_writes(
           [s EXCEPT !.m_free_lanes = @ + Len(s.writes[w].m_image_extents),
                     !.writes[w].allocated = FALSE])

complete_write_req(s, w, result) ==
    IF s.writes[w].m_cell = 0 THEN Fail(s, "assert write_req->get_cell()")
    ELSE LET s1 == IF ~ s.writes[w].m_persist_on_flush
                   THEN complete_user_request(s, w, result) ELSE s
             s2 == release_write_lanes(s1, w)
             s3 == release_guarded_request(s2, s.writes[w].m_cell)
         IN  [s3 EXCEPT !.writes[w].released = TRUE]

(* C_BlockIORequest::finish, with the _on_finish that dispatch installs.   *)
finish(s, w, r) ==
    finish_op(complete_write_req(complete_user_request(s, w, r), w, 0))

(* The finisher of the m_extent_ops gather of the operation set of w.      *)
ExtentOpsFinisher(s, w, r) ==
    finish(SyncPointSubFinish(s, s.writes[w].sync_point, r), w, r)

ExtentOpsActivate(s, w) ==
    LET s1 == [s EXCEPT !.writes[w].m_extent_ops.activated = TRUE]
    IN  IF s1.writes[w].m_extent_ops.sub_existing = 0
        THEN ExtentOpsFinisher(s1, w, 0) ELSE s1

(* A completion that fires the finisher of the operation set with the    *)
(* first operation that completes.                                        *)
CompleteOnFirstOperation(s, e, result) ==
    LET w == s.entries[e].request
        first == s.writes[w].m_extent_ops.sub_existing
                    = Len(s.writes[w].operations)
        s1 == [s EXCEPT !.writes[w].m_extent_ops.sub_existing = @ - 1]
    IN  IF s1.writes[w].m_extent_ops.activated /\ first
        THEN ExtentOpsFinisher(s1, w, result) ELSE s1

(* WriteLogOperation::complete of the operation that owns log entry e.     *)
OperationComplete(s, e, result) ==
    LET w == s.entries[e].request
        s1 == [s EXCEPT !.writes[w].m_extent_ops.sub_existing = @ - 1]
    IN  IF s1.writes[w].m_extent_ops.activated
           /\ s1.writes[w].m_extent_ops.sub_existing = 0
        THEN ExtentOpsFinisher(s1, w, result) ELSE s1

BufferOffset(extents, k) == SeqSum([i \in 1 .. (k - 1) |-> extents[i][2]])

(* A dispatch that completes the user request before it schedules the    *)
(* append, whatever the persist mode of the operation set.                *)
AckThenSchedule(s, w, operations) ==
    IF s.writes[w].m_persist_on_flush
    THEN schedule_flush_and_append(complete_user_request(s, w, 0), operations)
    ELSE schedule_append(
             flush_pmem_buffer(complete_user_request(s, w, 0), operations),
             operations)

(* The end of dispatch_aio_write: by the persist mode of the operation    *)
(* set the user request completes now, or the caller's thread persists    *)
(* the buffers and the append is scheduled.                               *)
PersistAndSchedule(s, w, operations) ==
    IF s.writes[w].m_persist_on_flush
    THEN schedule_flush_and_append(complete_user_request(s, w, 0), operations)
    ELSE schedule_append(flush_pmem_buffer(s, operations), operations)

(* A numbering that gives the operations of one write request the same   *)
(* number.                                                                *)
SequenceNumberOfRequest(s, pof, k) ==
    IF pof THEN 0 ELSE s.m_last_op_sequence_num + 1

(* The write_sequence_number of operation k of a write request dispatched *)
(* in state s: 0 for persist on flush, else ++m_last_op_sequence_num.     *)
OpSequenceNumber(s, pof, k) ==
    IF pof THEN 0 ELSE s.m_last_op_sequence_num + k

dispatch_aio_write(s, w) ==
    LET extents == s.writes[w].m_image_extents
        num == Len(extents)
        cur == s.m_current_sync_point
        pof == s.m_persist_on_flush
        bl == WriteData(w, extents)
        base == Len(s.entries)
        log_entries == [k \in 1 .. num |-> base + k]
        NewEntry(k) ==
            [WriteLogEntry(w, cur, extents[k][1], extents[k][2]) EXCEPT
               !.has_data = 1,
               !.sync_gen_number = s.m_current_sync_gen,
               !.write_sequence_number = OpSequenceNumber(s, pof, k),
               !.sequenced = IF pof THEN 0 ELSE 1,
               !.pmem_buffer = SubSeq(bl, BufferOffset(extents, k) + 1,
                                      BufferOffset(extents, k) + extents[k][2])]
        s1 == [s EXCEPT
                 !.entries = @ \o [k \in 1 .. num |-> NewEntry(k)],
                 !.sync_points[cur].sub_existing = @ + 1,
                 !.sync_points[cur].m_writes = @ + num,
                 !.m_last_op_sequence_num = IF pof THEN @ ELSE @ + num,
                 !.writes[w].m_op_set = TRUE,
                 !.writes[w].m_persist_on_flush = pof,
                 !.writes[w].sync_point = cur,
                 !.writes[w].operations = log_entries,
                 !.writes[w].m_extent_ops =
                     [sub_existing |-> num, activated |-> FALSE],
                 !.writes[w].dispatched =
                     1 + Cardinality({v \in DOMAIN s.writes :
                                        s.writes[v].dispatched > 0})]
        s2 == ExtentOpsActivate(start_op(s1), w)
        s3 == add_log_entries(s2, log_entries)
    IN  IF ~ s.writes[w].allocated THEN Fail(s, "assert m_resources.allocated")
        ELSE PersistAndSchedule(s3, w, log_entries)

AioWriteUnchecked(s, image_extents) ==
    LET w == Len(s.writes) + 1
        req == C_WriteRequest(image_extents)
        s1 == [s EXCEPT !.writes = Append(@, req)]
    IN  detain_guarded_request(s1,
            GuardedRequest(w, req.m_image_extents_summary.first_block,
                           req.m_image_extents_summary.last_block),
            FALSE)

aio_write(s, image_extents) ==
    LET w == Len(s.writes) + 1
        req == C_WriteRequest(image_extents)
        s1 == [s EXCEPT !.writes = Append(@, req)]
    IN  IF s.read_only THEN UserReqComplete(s1, w, -EROFS)
        ELSE IF \E i \in DOMAIN image_extents : ~ is_block_aligned(image_extents[i])
        THEN UserReqComplete(s1, w, -EINVAL)
        ELSE detain_guarded_request(s1,
                 GuardedRequest(w, req.m_image_extents_summary.first_block,
                                req.m_image_extents_summary.last_block),
                 FALSE)

(* ----------------------- aio_discard and invalidate -------------------- *)
DiscardRequest(kind, extent) ==
    [kind |-> kind, extent |-> extent, m_cell |-> 0, detained |-> FALSE,
     stage |-> "guard",          \* guard, flush, lower or done
     r |-> 0,                    \* the result on_finish was completed with
     entries_before |-> 0,       \* log entries constructed when it completed
     flush_calls |-> 0,          \* times flush ran for its context
     appended_before |-> {}]     \* log entries appended when it called flush

(* aio_discard: the extent is widened to block bounds (a block is a byte,  *)
(* so it is the extent itself) and handed to the guard.                    *)
aio_discard(s, offset, length) ==
    LET d == Len(s.discards) + 1
        discard_extent == << offset, length >>
        adjusted_discard_extent ==
            IF ~ is_block_aligned(discard_extent)
            THEN image_extent(block_extent(offset, length))
            ELSE discard_extent
        req == DiscardRequest("discard", adjusted_discard_extent)
        s1 == [s EXCEPT !.discards = Append(@, req)]
        be == block_extent(adjusted_discard_extent[1], adjusted_discard_extent[2])
    IN  IF s.read_only
        THEN [s1 EXCEPT !.discards[d].stage = "done", !.discards[d].r = -EROFS,
                        !.discards[d].entries_before = Len(s.entries)]
        ELSE detain_guarded_request(s1,
                 GuardedRequest(- d, be.block_start, be.block_end), FALSE)

(* invalidate(on_finish): the whole image goes through the guard.          *)
invalidate(s) ==
    LET d == Len(s.discards) + 1
        invalidate_extent == << 0, NumBlocks * MIN_WRITE_SIZE >>
        s1 == [s EXCEPT !.discards =
                 Append(@, DiscardRequest("invalidate", invalidate_extent))]
        be == block_extent(invalidate_extent[1], invalidate_extent[2])
    IN  IF ~ is_block_aligned(invalidate_extent)
        THEN Fail(s1, "assert is_block_aligned(invalidate_extent)")
        ELSE detain_guarded_request(s1,
                 GuardedRequest(- d, be.block_start, be.block_end), FALSE)

(* The last context of the chain, completed by the lower layer: the        *)
(* caller's on_finish, then the release of the cell.                       *)
DiscardFinish(s, d, r) ==
    release_guarded_request(
        [s EXCEPT !.discards[d].stage = "done", !.discards[d].r = r,
                  !.discards[d].entries_before = Len(s.entries)],
        s.discards[d].m_cell)

(* ------------------------------- append -------------------------------- *)
RECURSIVE alloc_op_log_entries(_, _)
alloc_op_log_entries(s, ops) ==
    IF ops = << >> THEN s
    ELSE LET e == Head(ops)
             s1 == [s EXCEPT
                      !.entries[e].log_entry_index = s.m_first_free_entry,
                      !.entries[e].entry_valid = 1,
                      !.m_first_free_entry = (@ + 1) % s.m_total_log_entries,
                      !.m_log_entries = Append(@, e),
                      !.m_dirty_log_entries = Append(@, e)]
         IN  alloc_op_log_entries(s1, Tail(ops))

(* flush_op_log_entries: the slots of the operations must be contiguous    *)
(* and ascending; pmemobj_flush covers the slots from the first to the     *)
(* last operation.  flush_call of a slot is the number, within its append, *)
(* of the call that flushed it, and 0 for a slot that is not flushed.      *)
flush_op_log_entries(s, ops, call) ==
    IF ops = << >> THEN s
    ELSE IF Len(ops) > 1
            /\ ~ (s.entries[ops[1]].log_entry_index
                    < s.entries[ops[Len(ops)]].log_entry_index)
    THEN Fail(s, "assert front->pmem_entry < back->pmem_entry")
    ELSE [s EXCEPT !.pool_root.log_entries = [i \in DOMAIN @ |->
            IF /\ s.entries[ops[1]].log_entry_index <= i
               /\ i < s.entries[ops[1]].log_entry_index + Len(ops)
            THEN [@[i] EXCEPT !.flush_call = call]
            ELSE @[i]]]

(* The loop of append_op_log_entries without its test for the wrap.        *)
RECURSIVE CopyEntriesUnsplit(_, _, _, _)
CopyEntriesUnsplit(s, ops, entries_to_flush, calls) ==
    IF ops = << >> THEN flush_op_log_entries(s, entries_to_flush, calls + 1)
    ELSE LET e == Head(ops)
             s2 == [s EXCEPT
                      !.pool_root.log_entries[s.entries[e].log_entry_index] =
                          [entry |-> e,
                           entry_valid |-> s.entries[e].entry_valid,
                           flush_call |-> 0]]
         IN  CopyEntriesUnsplit(s2, Tail(ops), entries_to_flush \o << e >>, calls)

RECURSIVE CopyEntries(_, _, _, _)
CopyEntries(s, ops, entries_to_flush, calls) ==
    IF ops = << >> THEN flush_op_log_entries(s, entries_to_flush, calls + 1)
    ELSE LET e == Head(ops)
             wraps == /\ entries_to_flush /= << >>
                      /\ s.entries[entries_to_flush[Len(entries_to_flush)]]
                            .log_entry_index > s.entries[e].log_entry_index
             s1 == IF wraps
                   THEN flush_op_log_entries(s, entries_to_flush, calls + 1)
                   ELSE s
             s2 == [s1 EXCEPT
                      !.pool_root.log_entries[s.entries[e].log_entry_index] =
                          [entry |-> e,
                           entry_valid |-> s.entries[e].entry_valid,
                           flush_call |-> 0]]
         IN  CopyEntries(s2, Tail(ops),
                         (IF wraps THEN << >> ELSE entries_to_flush) \o << e >>,
                         IF wraps THEN calls + 1 ELSE calls)

append_op_log_entries(s, ops) ==
    IF ops = << >> THEN s
    ELSE LET s1 == CopyEntries(s, ops, << >>, 0)
         IN  [s1 EXCEPT
                !.pool_root.first_free_entry = s1.m_first_free_entry,
                !.entries = [e \in DOMAIN @ |->
                    IF e \in Range(ops) THEN [@[e] EXCEPT !.appended = TRUE]
                    ELSE @[e]]]

complete_op_log_entries(s, ops, result) ==
    Queue(start_op(s), Ctx("complete_ctx", ops))

RECURSIVE append_scheduled_ops(_)
append_scheduled_ops(s) ==
    IF s.m_ops_to_append = << >> THEN s
    ELSE LET ops_to_append == Min(Len(s.m_ops_to_append), ops_appended_together)
             ops == SubSeq(s.m_ops_to_append, 1, ops_to_append)
             s1 == [s EXCEPT !.m_ops_to_append =
                       SubSeq(@, ops_to_append + 1, Len(@))]
             s2 == append_op_log_entries(alloc_op_log_entries(s1, ops), ops)
             s3 == complete_op_log_entries(s2, ops, 0)
             s4 == wake_up([s3 EXCEPT !.m_unpublished_reserves = @ - Len(ops)])
         IN  append_scheduled_ops(s4)

(* A work-queue thread that is outside append_scheduled_ops.               *)
NoAppender == [pc |-> "idle",
               ops |-> << >>,            \* the batch spliced off
               ops_remain |-> FALSE,
               first_free_entry |-> 0]   \* m_first_free_entry at the splice

(* append_scheduled_ops step by step, as work-queue thread t runs it: the   *)
(* splice of a batch under m_log_append_lock and m_lock,                   *)
(* alloc_op_log_entries, append_op_log_entries (after which the append     *)
(* lock is released), and the completion of the batch.  A thread holds     *)
(* m_log_append_lock from the splice to the end of append_op_log_entries.  *)
AppendLockFree(s) ==
    \A t \in DOMAIN s.appenders : s.appenders[t].pc \notin {"alloc", "append"}

(* A splice that takes everything that is scheduled.                       *)
AppendTakeAll(s, t) ==
    IF s.m_ops_to_append = << >>
    THEN finish_op([s EXCEPT !.appenders[t] = NoAppender])
    ELSE [s EXCEPT !.m_ops_to_append = << >>,
                   !.appenders[t] = [pc |-> "alloc", ops |-> s.m_ops_to_append,
                                     ops_remain |-> FALSE,
                                     first_free_entry |-> s.m_first_free_entry]]

append_take_batch(s, t) ==
    IF s.m_ops_to_append = << >>
    THEN finish_op([s EXCEPT !.appenders[t] = NoAppender])
    ELSE LET ops_to_append == Min(Len(s.m_ops_to_append), ops_appended_together)
             ops == SubSeq(s.m_ops_to_append, 1, ops_to_append)
             rest == SubSeq(s.m_ops_to_append, ops_to_append + 1,
                            Len(s.m_ops_to_append))
         IN  [s EXCEPT !.m_ops_to_append = rest,
                       !.appenders[t] = [pc |-> "alloc", ops |-> ops,
                                         ops_remain |-> rest /= << >>,
                                         first_free_entry |-> s.m_first_free_entry]]

append_alloc_batch(s, t) ==
    [alloc_op_log_entries(s, s.appenders[t].ops) EXCEPT !.appenders[t].pc = "append"]

append_write_batch(s, t) ==
    [append_op_log_entries(s, s.appenders[t].ops)
       EXCEPT !.appenders[t].pc = "complete"]

(* A completion of the batch that gives back one reserve for the batch.    *)
AppendCompleteCountsOne(s, t) ==
    LET ops == s.appenders[t].ops
        s1 == complete_op_log_entries(s, ops, 0)
        s2 == wake_up([s1 EXCEPT !.m_unpublished_reserves = @ - 1])
    IN  IF s.appenders[t].ops_remain
        THEN [s2 EXCEPT !.appenders[t].pc = "loop"]
        ELSE finish_op([s2 EXCEPT !.appenders[t] = NoAppender])

append_complete_batch(s, t) ==
    LET ops == s.appenders[t].ops
        s1 == complete_op_log_entries(s, ops, 0)
        s2 == wake_up([s1 EXCEPT !.m_unpublished_reserves = @ - Len(ops)])
    IN  IF s.appenders[t].ops_remain
        THEN [s2 EXCEPT !.appenders[t].pc = "loop"]
        ELSE finish_op([s2 EXCEPT !.appenders[t] = NoAppender])

RECURSIVE FlushBatches(_)
FlushBatches(s) ==
    IF s.m_ops_to_flush = << >> THEN s
    ELSE LET ops_to_flush == Min(Len(s.m_ops_to_flush), ops_flushed_together)
             ops == SubSeq(s.m_ops_to_flush, 1, ops_to_flush)
             s1 == [s EXCEPT !.m_ops_to_flush =
                       SubSeq(@, ops_to_flush + 1, Len(@))]
         IN  FlushBatches(schedule_append(flush_pmem_buffer(s1, ops), ops))

flush_then_append_scheduled_ops(s) == append_scheduled_ops(FlushBatches(s))

(* The context queued by complete_op_log_entries.                          *)
RECURSIVE CompleteOps(_, _, _)
CompleteOps(s, ops, result) ==
    IF ops = << >> THEN s
    ELSE LET e == Head(ops)
             s1 == [s EXCEPT
                      !.entries[e].completed = TRUE,
                      !.sync_points[s.entries[e].sync_point].m_writes_completed
                          = @ + 1]
         IN  CompleteOps(OperationComplete(s1, e, result), Tail(ops), result)

(* ------------------------------ writeback ------------------------------ *)
can_flush_entry(s, e) ==
    /\ s.entries[e].completed
    /\ s.m_flush_ops_in_flight <= IN_FLIGHT_FLUSH_WRITE_LIMIT
    /\ s.m_flush_bytes_in_flight <= IN_FLIGHT_FLUSH_BYTES_LIMIT

(* A writeback write that is issued without being counted in the bytes in  *)
(* flight.                                                                 *)
FlushEntryUncountedBytes(s, e) ==
    [s EXCEPT
       !.m_flush_ops_in_flight = @ + 1,
       !.entries[e].reader_count = @ + 1,
       !.entries[e].flushing = TRUE,
       !.lower.queue = Append(@,
           [entry |-> e,
            image_offset_bytes |-> s.entries[e].image_offset_bytes,
            bl |-> s.entries[e].pmem_buffer])]

(* construct_flush_entry_ctx and the context it returns, which the caller  *)
(* completes after dropping m_lock: the write is handed to the lower       *)
(* layer with the bytes of the pmem buffer.                                *)
construct_flush_entry_ctx(s, e) ==
    [s EXCEPT
       !.m_flush_ops_in_flight = @ + 1,
       !.m_flush_bytes_in_flight = @ + s.entries[e].write_bytes,
       !.entries[e].reader_count = @ + 1,
       !.entries[e].flushing = TRUE,
       !.lower.queue = Append(@,
           [entry |-> e,
            image_offset_bytes |-> s.entries[e].image_offset_bytes,
            bl |-> s.entries[e].pmem_buffer])]

(* A completion that takes the entry for flushed whatever the status.      *)
CompletionMarksFlushed(s, e, r) ==
    wake_up([s EXCEPT
               !.m_flush_ops_in_flight = @ - 1,
               !.m_flush_bytes_in_flight = @ - s.entries[e].write_bytes,
               !.entries[e].flushing = FALSE,
               !.entries[e].flushed = TRUE])

(* The completion of the flush write of entry e with status r.             *)
FlushWriteCompletion(s, e, r) ==
    LET s1 == [s EXCEPT
                 !.m_flush_ops_in_flight = @ - 1,
                 !.m_flush_bytes_in_flight = @ - s.entries[e].write_bytes,
                 !.entries[e].flushing = FALSE]
        s2 == IF r < 0
              THEN [s1 EXCEPT !.m_dirty_log_entries = << e >> \o @]
              ELSE [s1 EXCEPT !.entries[e].flushed = TRUE]
    IN  wake_up(s2)

(* What the shut_down chain does once its flush has completed.             *)
ShutDownFlushed(s) ==
    tracker_wait([s EXCEPT !.m_wake_up_enabled = FALSE, !.shut.stage = "wait"],
                 "close_ctx")

(* The internal flush.  Its callers are shut_down, whose on_finish is the  *)
(* next context of the shut_down chain, and aio_discard, whose on_finish   *)
(* goes on to invalidate(Extents) and the lower layer.                     *)
FlushCalled(s, on_finish) ==
    IF on_finish[1] = "discard"
    THEN [s EXCEPT !.discards[on_finish[2]].flush_calls = @ + 1]
    ELSE s

FlushComplete(s, on_finish) ==
    IF on_finish = << "shut_down", 0 >> THEN ShutDownFlushed(s)
    ELSE IF on_finish[1] = "discard" THEN DiscardToLower(s, on_finish[2])
    ELSE s

FlushAtOnce(s, on_finish) == FlushComplete(FlushCalled(s, on_finish), on_finish)

flush(s, on_finish) ==
    LET s1 == FlushCalled(s, on_finish)
        all_clean == s1.m_flush_ops_in_flight = 0 /\ s1.m_dirty_log_entries = << >>
    IN  IF all_clean
        THEN FlushComplete(s1, on_finish)
        ELSE wake_up([s1 EXCEPT !.m_flush_complete_contexts = Append(@, on_finish)])

RECURSIVE drain_flush_complete_contexts(_, _)
drain_flush_complete_contexts(s, contexts) ==
    IF contexts = << >> THEN s
    ELSE drain_flush_complete_contexts(flush(s, Head(contexts)), Tail(contexts))

RECURSIVE FlushDirtyEntries(_)
FlushDirtyEntries(s) ==
    IF s.m_dirty_log_entries = << >> THEN s
    ELSE IF can_flush_entry(s, Head(s.m_dirty_log_entries))
    THEN FlushDirtyEntries(
           [construct_flush_entry_ctx(s, Head(s.m_dirty_log_entries))
              EXCEPT !.m_dirty_log_entries = Tail(@)])
    ELSE s

process_writeback_dirty_entries(s) ==
    LET s1 == FlushDirtyEntries(s)
        all_clean == s1.m_flush_ops_in_flight = 0 /\ s1.m_dirty_log_entries = << >>
    IN  IF all_clean
        THEN drain_flush_complete_contexts(
               [s1 EXCEPT !.m_flush_complete_contexts = << >>],
               s1.m_flush_complete_contexts)
        ELSE s1

(* -------------------------------- retire ------------------------------- *)
(* A test that lets an entry go as soon as it is flushed, whoever still   *)
(* borrows its buffer.                                                    *)
CanRetireFlushed(s, e) == s.entries[e].flushed

can_retire_entry(s, e) ==
    s.entries[e].flushed /\ s.entries[e].reader_count = 0

(* The loop of retire_entries under the two locks.  The result carries the *)
(* retiring entries and the local first_valid_entry in s.worker.           *)
RECURSIVE RetireScan(_)
RetireScan(s) ==
    IF s.m_log_entries = << >> THEN s
    ELSE LET entry == Head(s.m_log_entries)
         IN  IF ~ (Len(s.worker.retiring) < MAX_ALLOC_PER_TRANSACTION
                   /\ can_retire_entry(s, entry))
             THEN s
             ELSE IF s.entries[entry].flushing THEN Fail(s, "assert !entry->flushing")
             ELSE IF ~ s.entries[entry].completed THEN Fail(s, "assert entry->completed")
             ELSE IF s.entries[entry].log_entry_index /= s.worker.first_valid_entry
             THEN Fail(s, "assert log_entry_index == first_valid_entry")
             ELSE LET s1 == [s EXCEPT
                        !.worker.first_valid_entry =
                            (@ + 1) % s.m_total_log_entries,
                        !.m_log_entries = Tail(@),
                        !.worker.retiring = Append(@, entry)]
                      s2 == remove_log_entry_locked(s1, entry)
                  IN  IF s2.entries[entry].reader_count /= 0
                      THEN Fail(s2, "assert !entry->reader_count")
                      ELSE IF s2.entries[entry].referring_map_entries /= 0
                      THEN Fail(s2, "assert !entry->referring_map_entries")
                      ELSE RetireScan(s2)

RetireSelect(s) ==
    RetireScan([s EXCEPT !.worker.first_valid_entry = s.m_first_valid_entry,
                         !.worker.retiring = << >>])

(* A retire that frees the buffers and moves the runtime cursor, and       *)
(* leaves the root of the pool as it was.                                  *)
RetireInMemoryOnly(s) ==
    [s EXCEPT
       !.entries = [e \in DOMAIN @ |->
           IF e \in Range(s.worker.retiring)
           THEN [@[e] EXCEPT !.pmem_buffer = << >>] ELSE @[e]],
       !.m_first_valid_entry = s.worker.first_valid_entry,
       !.m_free_log_entries = @ + Len(s.worker.retiring),
       !.worker.retiring = << >>]

(* The transaction of retire_entries and the update of the runtime copy.   *)
RetireCommit(s) ==
    [s EXCEPT
       !.pool_root.first_valid_entry = s.worker.first_valid_entry,
       !.entries = [e \in DOMAIN @ |->
           IF e \in Range(s.worker.retiring)
           THEN [@[e] EXCEPT !.pmem_buffer = << >>] ELSE @[e]],
       !.m_first_valid_entry = s.worker.first_valid_entry,
       !.m_free_log_entries = @ + Len(s.worker.retiring),
       !.worker.retiring = << >>]

(* ----------------------------- process_work ---------------------------- *)
(* The part of one iteration of the loop of process_work that comes before *)
(* retire_entries.                                                         *)
ProcessWorkIteration(s) ==
    process_writeback_dirty_entries(
        dispatch_deferred_writes([s EXCEPT !.m_wake_up_requested = FALSE]))

(* The end of an iteration, reached when retire_entries returns false.     *)
ProcessWorkIterationEnd(s) ==
    IF s.m_wake_up_requested /\ s.worker.max_iterations - 1 > 0
    THEN [s EXCEPT !.worker.max_iterations = @ - 1, !.worker.pc = "iterate"]
    ELSE LET s1 == [s EXCEPT !.m_wake_up_scheduled = FALSE,
                             !.worker.pc = "idle",
                             !.worker.max_iterations = 0]
             s2 == IF s1.m_wake_up_requested THEN wake_up(s1) ELSE s1
         IN  finish_op(s2)

(* -------------------------------- aio_read ----------------------------- *)
ReadExtent(first, second, entry, bl) ==
    [first |-> first, second |-> second, entry |-> entry, bl |-> bl]

LowerRead(s, first, second) ==
    [j \in 1 .. second |-> s.lower.image[first + j - 1]]

RECURSIVE ReadScan(_, _, _, _, _)
ReadScan(s, extent, map_entries, extent_offset, read_extents) ==
    IF map_entries = << >>
    THEN IF extent[2] > extent_offset
         THEN read_extents \o
              << ReadExtent(extent[1] + extent_offset, extent[2] - extent_offset, 0,
                            LowerRead(s, extent[1] + extent_offset,
                                      extent[2] - extent_offset)) >>
         ELSE read_extents
    ELSE LET entry == Head(map_entries)
             entry_image_extent == image_extent(entry)
             miss == entry_image_extent[1] > extent[1] + extent_offset
             miss_extent_start == extent[1] + extent_offset
             miss_extent_length == entry_image_extent[1] - miss_extent_start
             offset1 == IF miss THEN extent_offset + miss_extent_length
                        ELSE extent_offset
             extents1 == IF miss
                 THEN read_extents \o
                      << ReadExtent(miss_extent_start, miss_extent_length, 0,
                            LowerRead(s, miss_extent_start, miss_extent_length)) >>
                 ELSE read_extents
             entry_offset == IF entry_image_extent[1] < extent[1] + offset1
                             THEN (extent[1] + offset1) - entry_image_extent[1]
                             ELSE 0
             entry_hit_length == Min(entry_image_extent[2] - entry_offset,
                                     extent[2] - offset1)
             map_entry_buffer_offset ==
                 entry_image_extent[1]
                   - s.entries[entry.log_entry].image_offset_bytes
             read_buffer_offset == map_entry_buffer_offset + entry_offset
             hit == ReadExtent(entry_image_extent[1], entry_hit_length,
                               entry.log_entry,
                               SubSeq(s.entries[entry.log_entry].pmem_buffer,
                                      read_buffer_offset + 1,
                                      read_buffer_offset + entry_hit_length))
         IN  ReadScan(s, extent, Tail(map_entries), offset1 + entry_hit_length,
                      extents1 \o << hit >>)

RECURSIVE AddReaders(_, _)
AddReaders(s, read_extents) ==
    IF read_extents = << >> THEN s
    ELSE AddReaders(
           IF Head(read_extents).entry /= 0
           THEN [s EXCEPT !.entries[Head(read_extents).entry].reader_count = @ + 1]
           ELSE s,
           Tail(read_extents))

RECURSIVE RemoveReaders(_, _)
RemoveReaders(s, read_extents) ==
    IF read_extents = << >> THEN s
    ELSE RemoveReaders(
           IF Head(read_extents).entry /= 0
           THEN [s EXCEPT !.entries[Head(read_extents).entry].reader_count = @ - 1]
           ELSE s,
           Tail(read_extents))

RECURSIVE ConcatBl(_)
ConcatBl(read_extents) ==
    IF read_extents = << >> THEN << >>
    ELSE Head(read_extents).bl \o ConcatBl(Tail(read_extents))

(* The read extents that went to m_miss_extents, in order.                 *)
RECURSIVE MissExtents(_)
MissExtents(read_extents) ==
    IF read_extents = << >> THEN << >>
    ELSE (IF Head(read_extents).entry = 0
          THEN << << Head(read_extents).first, Head(read_extents).second >> >>
          ELSE << >>)
         \o MissExtents(Tail(read_extents))

(* The blocks that some map entry names when aio_read looks the map up.    *)
CoveredBlocks(s) ==
    {b \in 0 .. MapBlocks :
       \E me \in s.m_block_to_log_entry_map :
          me.block_start <= b /\ b <= me.block_end}

(* The state that aio_read leaves, given what the scan has produced: with  *)
(* no miss extent the request is completed with 0 at once, otherwise with  *)
(* the result of the read of the miss extents at the lower layer.          *)
ReadIssued(s, extent, read_extents) ==
    [AddReaders(s, read_extents) EXCEPT
       !.last_read = [issued |-> TRUE,
                      image_extent |-> extent,
                      m_read_extents |-> read_extents,
                      bl |-> ConcatBl(read_extents),
                      acked |-> AckedWrites(s),
                      covered |-> CoveredBlocks(s),
                      r |-> 0]]

ReadOfFirstMapEntry(s, extent) ==
    LET map_entries == find_map_entries_locked(s,
                           block_extent(extent[1], extent[2]))
    IN  ReadIssued(s, extent,
                   ReadScan(s, extent,
                            IF map_entries = << >> THEN << >>
                            ELSE << Head(map_entries) >>, 0, << >>))

(* aio_read of one image extent, with C_ReadRequest::finish; the miss read *)
(* of the lower layer returns the image content of the moment.             *)
aio_read(s, extent) ==
    LET map_entries == find_map_entries_locked(s,
                           block_extent(extent[1], extent[2]))
    IN  ReadIssued(s, extent, ReadScan(s, extent, map_entries, 0, << >>))

(* The log entries of the hit buffers of a read, in the order in which     *)
(* aio_read adds their readers.                                            *)
RECURSIVE HitEntries(_)
HitEntries(read_extents) ==
    IF read_extents = << >> THEN << >>
    ELSE (IF Head(read_extents).entry /= 0
          THEN << Head(read_extents).entry >> ELSE << >>)
         \o HitEntries(Tail(read_extents))

(* reader_count is a plain uint32_t: reader_count++ and reader_count-- are *)
(* a load and a store, and no lock is common to all the threads that run   *)
(* them.  A negative value v stands for the wrapped value 2^32 + v.        *)
add_reader(s, e, loaded) == [s EXCEPT !.entries[e].reader_count = loaded + 1]

remove_reader(s, e, loaded) == [s EXCEPT !.entries[e].reader_count = loaded - 1]

(* --------------------------- init and shut_down ------------------------ *)
NoRead == [issued |-> FALSE, image_extent |-> << 0, 0 >>,
           m_read_extents |-> << >>, bl |-> << >>, acked |-> {},
           covered |-> {}, r |-> 0]

(* A caller thread that is outside alloc_write_resources: its write        *)
(* request has no extent yet and no resources.                             *)
NoAlloc == [pc |-> "idle",
            num_extents |-> 0,         \* write_req->m_image_extents.size()
            buffers |-> 0,             \* m_resources.buffers.size()
            allocated |-> FALSE,       \* m_resources.allocated
            alloc_succeeds |-> TRUE,
            ret |-> FALSE,             \* the value returned, once returned
            cancelled |-> 0]           \* pmemobj_cancel calls of this call

(* A caller thread that is outside aio_read and holds no bufferlist.       *)
NoReader == [pc |-> "idle", hits |-> << >>, k |-> 0, reader_count |-> 0]

(* A pool file that does not exist yet, of a size that gives room for      *)
(* num_small_writes ring slots.                                            *)
PoolOfSize(num_small_writes) ==
    [exists |-> FALSE, num_small_writes |-> num_small_writes,
     num_log_entries |-> 0, first_free_entry |-> 0, first_valid_entry |-> 0,
     log_entries |-> [i \in 0 .. (num_small_writes - 1) |->
                        [entry |-> 0, entry_valid |-> 0, flush_call |-> 0]]]

NoPool == PoolOfSize(RingSlots)

(* The members of a ReplicatedWriteLog as its constructor leaves them, on  *)
(* the given pool and lower layer.                                         *)
Constructed(pool, lower_layer, image_read_only, history) ==
    [ entries |-> history.entries,
      m_block_to_log_entry_map |-> {},
      m_log_entries |-> << >>, m_dirty_log_entries |-> << >>,
      m_first_free_entry |-> 0, m_first_valid_entry |-> 0,
      m_total_log_entries |-> 0, m_free_log_entries |-> 0,
      m_free_lanes |-> MAX_CONCURRENT_WRITES, m_unpublished_reserves |-> 0,
      m_persist_on_flush |-> FALSE, m_flush_seen |-> FALSE,
      m_current_sync_gen |-> 0, m_last_op_sequence_num |-> 0,
      m_current_sync_point |-> 0, sync_points |-> history.sync_points,
      m_deferred_ios |-> << >>, m_ops_to_flush |-> << >>,
      m_ops_to_append |-> << >>,
      m_wake_up_requested |-> FALSE, m_wake_up_scheduled |-> FALSE,
      m_wake_up_enabled |-> TRUE,
      m_flush_ops_in_flight |-> 0, m_flush_bytes_in_flight |-> 0,
      m_flush_complete_contexts |-> << >>,
      m_async_op_tracker |-> [pending |-> 0, waiter |-> ""],
      m_write_log_guard |-> {},
      writes |-> history.writes, flushes |-> history.flushes,
      op_work_queue |-> << >>,
      worker |-> [pc |-> "idle", max_iterations |-> 0, retiring |-> << >>,
                  first_valid_entry |-> 0, req |-> 0],
      pool_root |-> pool,
      lower |-> lower_layer,
      last_read |-> NoRead,
      readers |-> [t \in 1 .. NumReaders |-> NoReader],
      discards |-> << >>,
      allocs |-> [t \in 1 .. NumAllocators |-> NoAlloc],
      appenders |-> [t \in 1 .. NumAppenders |-> NoAppender],
      shut |-> [stage |-> "none", inits |-> history.inits, quiesced |-> FALSE],
      read_only |-> image_read_only,
      failure |-> "" ]

(* An init that takes the ring of an existing pool to start at slot 0.      *)
InitValidFromZero(s) ==
    LET s1 ==
          IF ~ s.pool_root.exists
          THEN [s EXCEPT
                  !.m_first_free_entry = 0,
                  !.m_first_valid_entry = 0,
                  !.pool_root = [@ EXCEPT
                                   !.exists = TRUE,
                                   !.num_log_entries =
                                       s.pool_root.num_small_writes - 1],
                  !.m_total_log_entries = s.pool_root.num_small_writes - 1,
                  !.m_free_log_entries = s.pool_root.num_small_writes - 1]
          ELSE [s EXCEPT
                  !.m_total_log_entries = s.pool_root.num_log_entries,
                  !.m_free_log_entries = s.pool_root.num_log_entries,
                  !.m_first_free_entry = s.pool_root.first_free_entry,
                  !.m_first_valid_entry = 0]
    IN  new_sync_point([s1 EXCEPT !.shut.inits = @ + 1])

rwl_init(s) ==
    LET s1 ==
          IF ~ s.pool_root.exists
          THEN [s EXCEPT
                  !.m_first_free_entry = 0,
                  !.m_first_valid_entry = 0,
                  !.pool_root = [@ EXCEPT
                                   !.exists = TRUE,
                                   !.num_log_entries =
                                       s.pool_root.num_small_writes - 1],
                  !.m_total_log_entries = s.pool_root.num_small_writes - 1,
                  !.m_free_log_entries = s.pool_root.num_small_writes - 1]
          ELSE [s EXCEPT
                  !.m_total_log_entries = s.pool_root.num_log_entries,
                  !.m_free_log_entries = s.pool_root.num_log_entries,
                  !.m_first_free_entry = s.pool_root.first_free_entry,
                  !.m_first_valid_entry = s.pool_root.first_valid_entry]
    IN  new_sync_point([s1 EXCEPT !.shut.inits = @ + 1])

(* shut.quiesced records whether every aio_write and aio_flush called so  *)
(* far had completed its callback when shut_down was called.              *)
shut_down(s) ==
    tracker_wait([s EXCEPT
                    !.shut.stage = "wait",
                    !.shut.quiesced =
                        /\ \A w \in DOMAIN s.writes : s.writes[w].user_req_calls > 0
                        /\ \A f \in DOMAIN s.flushes : s.flushes[f].calls > 0],
                 "flush_ctx_sd")

(* The context of the shut_down chain that closes the log.                 *)
RECURSIVE RemoveAllFromMap(_, _)
RemoveAllFromMap(s, log_entries) ==
    IF log_entries = << >> THEN s
    ELSE LET entry == Head(log_entries)
             s1 == remove_log_entry_locked(s, entry)
         IN  IF s1.entries[entry].referring_map_entries /= 0
             THEN Fail(s1, "assert entry->referring_map_entries == 0")
             ELSE IF s1.entries[entry].reader_count /= 0
             THEN Fail(s1, "assert entry->reader_count == 0")
             ELSE IF s1.entries[entry].flushing
             THEN Fail(s1, "assert !entry->flushing")
             ELSE RemoveAllFromMap(s1, Tail(log_entries))

ShutDownClose(s) ==
    IF s.m_dirty_log_entries /= << >>
    THEN Fail(s, "assert m_dirty_log_entries.size() == 0")
    ELSE [RemoveAllFromMap(s, s.m_log_entries) EXCEPT
            !.m_log_entries = << >>,
            !.shut.stage = "done"]

(* ------------------------------ lower layer ---------------------------- *)
LowerInit ==
    [image |-> [b \in Blocks |-> << 0, b >>],
     queue |-> << >>, done |-> {}, failures |-> 0]

(* The lower layer takes the writes it was handed in order; a write that   *)
(* succeeds replaces the bytes of its extent, a write that fails changes   *)
(* nothing.                                                                *)
LowerApply(image, write, r) ==
    IF r < 0 THEN image
    ELSE [b \in Blocks |->
            IF b >= write.image_offset_bytes
               /\ b < write.image_offset_bytes + Len(write.bl)
            THEN write.bl[b - write.image_offset_bytes + 1]
            ELSE image[b]]

(* ------------------------------- inputs -------------------------------- *)
(* The extent lists of an aio_write: one to MaxExtents extents, ascending  *)
(* and disjoint.                                                           *)
RECURSIVE ExtentLists(_)
ExtentLists(n) ==
    IF n = 0 THEN {<< >>}
    ELSE LET shorter == ExtentLists(n - 1)
             longest == {q \in shorter : Len(q) = n - 1}
             Ascending(l, x) ==
                 l /= << >> => l[Len(l)][1] + l[Len(l)][2] <= x[1]
         IN  shorter \cup
             {Append(p[1], p[2]) :
                 p \in {q \in longest \X ImageExtents : Ascending(q[1], q[2])}}

WriteInputs == ExtentLists(MaxExtents) \ {<< >>}

(* ------------------------------- actions ------------------------------- *)
Running == failure = "" /\ shut.stage = "none"

WorkerRuns(type) ==
    /\ failure = ""
    /\ worker.pc = "idle"
    /\ op_work_queue /= << >>
    /\ Head(op_work_queue).type = type

Dequeued == [CurState EXCEPT !.op_work_queue = Tail(@)]

Init ==
    \E image_read_only \in BOOLEAN :
       StateIs(rwl_init(Constructed(NoPool, LowerInit, image_read_only,
                [entries |-> << >>, sync_points |-> << >>, writes |-> << >>,
                 flushes |-> << >>, inits |-> 0])))

AioWrite ==
    /\ Running
    /\ Len(writes) < MaxWrites
    /\ \E image_extents \in WriteInputs :
          SetState(aio_write(CurState, image_extents))

AioFlush ==
    /\ Running
    /\ Len(flushes) < MaxFlushes
    /\ SetState(aio_flush(CurState))

AioRead ==
    /\ Running
    /\ ~ last_read.issued
    /\ \E extent \in ImageExtents : SetState(aio_read(CurState, extent))

(* The caller destroys the bufferlist of its read: the deleters of the hit *)
(* buffers run.                                                            *)
ReadBufferRelease ==
    /\ failure = ""
    /\ last_read.issued
    /\ SetState([RemoveReaders(CurState, last_read.m_read_extents)
                   EXCEPT !.last_read = NoRead])

(* Caller thread t enters aio_read for one image extent, once in a run: it *)
(* takes m_entry_reader_lock for reading and finds the map entries it      *)
(* hits.                                                                   *)
ReaderLookup(t) ==
    /\ Running
    /\ readers[t].pc = "idle"
    /\ \E extent \in ImageExtents :
         LET map_entries == find_map_entries_locked(CurState,
                                block_extent(extent[1], extent[2]))
             hits == HitEntries(ReadScan(CurState, extent, map_entries, 0, << >>))
         IN  /\ hits /= << >>
             /\ SetState([CurState EXCEPT !.readers[t] =
                    [pc |-> "add", hits |-> hits, k |-> 1, reader_count |-> 0]])

(* The load of reader_count++ in add_reader for hit k of thread t.         *)
ReaderAddLoad(t) ==
    /\ failure = ""
    /\ readers[t].pc = "add"
    /\ SetState([CurState EXCEPT
          !.readers[t].reader_count =
              entries[readers[t].hits[readers[t].k]].reader_count,
          !.readers[t].pc = "add_store"])

(* The store of reader_count++; the hit buffer is claimed.  After the last *)
(* hit the thread leaves the lock and holds the bufferlist.                *)
ReaderAddStore(t) ==
    /\ failure = ""
    /\ readers[t].pc = "add_store"
    /\ LET r == readers[t]
           s1 == add_reader(CurState, r.hits[r.k], r.reader_count)
       IN  SetState([s1 EXCEPT !.readers[t] =
                IF r.k = Len(r.hits)
                THEN [r EXCEPT !.pc = "hold", !.k = 1, !.reader_count = 0]
                ELSE [r EXCEPT !.pc = "add", !.k = @ + 1, !.reader_count = 0]])

(* The caller destroys its bufferlist: the deleter of hit buffer k runs    *)
(* remove_reader, under no lock.  The load of reader_count--.              *)
DeleterLoad(t) ==
    /\ failure = ""
    /\ readers[t].pc = "hold"
    /\ SetState([CurState EXCEPT
          !.readers[t].reader_count =
              entries[readers[t].hits[readers[t].k]].reader_count,
          !.readers[t].pc = "remove_store"])

(* The store of reader_count--; the hit buffer is gone.                    *)
DeleterStore(t) ==
    /\ failure = ""
    /\ readers[t].pc = "remove_store"
    /\ LET r == readers[t]
           s1 == remove_reader(CurState, r.hits[r.k], r.reader_count)
       IN  SetState([s1 EXCEPT !.readers[t] =
                IF r.k = Len(r.hits) THEN [NoReader EXCEPT !.pc = "done"]
                ELSE [r EXCEPT !.pc = "hold", !.k = @ + 1, !.reader_count = 0]])

ReaderStep ==
    \E t \in 1 .. NumReaders :
       \/ ReaderLookup(t)
       \/ ReaderAddLoad(t)
       \/ ReaderAddStore(t)
       \/ DeleterLoad(t)
       \/ DeleterStore(t)

(* No thread holds m_entry_reader_lock for reading.                        *)
EntryReaderLockFree ==
    \A t \in DOMAIN readers : readers[t].pc \notin {"add", "add_store"}

FlushThenAppend ==
    /\ WorkerRuns("flush_ctx")
    /\ SetState(finish_op(flush_then_append_scheduled_ops(Dequeued)))

AppendScheduledOps ==
    /\ WorkerRuns("append_ctx")
    /\ SetState(finish_op(append_scheduled_ops(Dequeued)))

CompleteOpLogEntries ==
    /\ WorkerRuns("complete_ctx")
    /\ SetState(finish_op(CompleteOps(Dequeued, Head(op_work_queue).ops, 0)))

ProcessWork ==
    /\ WorkerRuns("process_work")
    /\ SetState([ProcessWorkIteration(
                    [Dequeued EXCEPT !.worker.max_iterations = 4])
                   EXCEPT !.worker.pc = "retire"])

ProcessWorkIterate ==
    /\ failure = ""
    /\ worker.pc = "iterate"
    /\ SetState([ProcessWorkIteration(CurState) EXCEPT !.worker.pc = "retire"])

(* process_work step by step through dispatch_deferred_writes, for the    *)
(* runs in which a caller's thread is in dispatch_deferred_writes as well. *)
(* The start of an iteration of the loop of process_work.                  *)
ProcessWorkEnter ==
    \/ /\ WorkerRuns("process_work")
       /\ SetState([Dequeued EXCEPT !.worker.max_iterations = 4,
                                    !.worker.pc = "deferred",
                                    !.m_wake_up_requested = FALSE])
    \/ /\ failure = ""
       /\ worker.pc = "iterate"
       /\ SetState([CurState EXCEPT !.worker.pc = "deferred",
                                     !.m_wake_up_requested = FALSE])

(* One pass of dispatch_deferred_writes under m_deferred_dispatch_lock:    *)
(* the front request gets its resources and leaves the queue.  When there  *)
(* is nothing to take the work function goes on to the writeback.          *)
DeferredTake ==
    /\ failure = ""
    /\ worker.pc = "deferred"
    /\ LET s == CurState
       IN  IF s.m_deferred_ios /= << >>
              /\ CanAllocWriteResources(s, Head(s.m_deferred_ios))
           THEN LET req == Head(s.m_deferred_ios)
                    s1 == alloc_write_resources(s, req)
                    s2 == [s1 EXCEPT !.m_deferred_ios = Tail(@)]
                    s3 == IF s2.m_deferred_ios /= << >> THEN wake_up(s2) ELSE s2
                IN  SetState([s3 EXCEPT !.worker.req = req,
                                        !.worker.pc = "dispatch"])
           ELSE SetState([process_writeback_dirty_entries(s)
                            EXCEPT !.worker.pc = "retire"])

(* req->dispatch() of the request taken, outside the locks.                *)
DeferredDispatch ==
    /\ failure = ""
    /\ worker.pc = "dispatch"
    /\ SetState([dispatch_aio_write(CurState, worker.req)
                   EXCEPT !.worker.req = 0, !.worker.pc = "deferred"])

(* retire_entries up to its transaction.  It reads m_log_entries.front()   *)
(* also when the list is empty, which is undefined: the read is harmless   *)
(* or the process dies.                                                    *)
RetireEntries ==
    /\ failure = ""
    /\ worker.pc = "retire"
    /\ EntryReaderLockFree
    /\ LET s1 == RetireSelect(CurState)
       IN  \E front_of_empty_list \in {"harmless", "fatal"} :
             IF s1.failure = "" /\ s1.m_log_entries = << >>
                /\ front_of_empty_list = "fatal"
             THEN SetState(Fail(s1, "m_log_entries.front() of an empty list"))
             ELSE IF s1.worker.retiring /= << >>
             THEN SetState([s1 EXCEPT !.worker.pc = "retire_tx"])
             ELSE SetState(ProcessWorkIterationEnd(s1))

RetireTransaction ==
    /\ failure = ""
    /\ worker.pc = "retire_tx"
    /\ AppendLockFree(CurState)
    /\ SetState([RetireCommit(CurState) EXCEPT !.worker.pc = "retire"])

(* The lower layer performs the oldest write it holds.                     *)
LowerWrite ==
    /\ failure = ""
    /\ lower.queue /= << >>
    /\ \E r \in {0, -EIO} :
         /\ r < 0 => lower.failures < MaxLowerFailures
         /\ lower' = [lower EXCEPT
                        !.image = LowerApply(@, Head(lower.queue), r),
                        !.queue = Tail(@),
                        !.done = @ \cup {[entry |-> Head(lower.queue).entry,
                                          r |-> r]},
                        !.failures = IF r < 0 THEN @ + 1 ELSE @]
         /\ UNCHANGED << entries, m_block_to_log_entry_map, m_log_entries,
                         m_dirty_log_entries, m_first_free_entry,
                         m_first_valid_entry, m_total_log_entries,
                         m_free_log_entries, m_free_lanes,
                         m_unpublished_reserves, m_persist_on_flush,
                         m_flush_seen, m_current_sync_gen,
                         m_last_op_sequence_num, m_current_sync_point,
                         sync_points, m_deferred_ios, m_ops_to_flush,
                         m_ops_to_append, m_wake_up_requested,
                         m_wake_up_scheduled, m_wake_up_enabled,
                         m_flush_ops_in_flight, m_flush_bytes_in_flight,
                         m_flush_complete_contexts, m_async_op_tracker,
                         m_write_log_guard, writes, flushes, op_work_queue,
                         worker, pool_root, last_read, readers, discards, allocs,
                         appenders,
                         shut,
                         read_only,
                         failure >>

(* The lower layer drops the bufferlist of a write it has performed and    *)
(* completes the context that construct_flush_entry_ctx gave it.           *)
LowerWriteComplete ==
    /\ failure = ""
    /\ \E d \in lower.done :
         SetState(FlushWriteCompletion(
             [CurState EXCEPT !.lower.done = @ \ {d},
                              !.entries[d.entry].reader_count = @ - 1],
             d.entry, d.r))

ShutDown ==
    /\ Running
    /\ ~ last_read.issued
    /\ SetState(shut_down(CurState))

ShutDownFlush ==
    /\ WorkerRuns("flush_ctx_sd")
    /\ SetState(flush(Dequeued, << "shut_down", 0 >>))

ShutDownCloseLog ==
    /\ WorkerRuns("close_ctx")
    /\ SetState(ShutDownClose(Dequeued))

(* A new ReplicatedWriteLog is constructed and initialised on the pool     *)
(* that the one shut down has left.                                        *)
ReInit ==
    /\ failure = ""
    /\ shut.stage = "done"
    /\ shut.inits < MaxInits
    /\ SetState(rwl_init(Constructed(pool_root, lower, read_only,
                  [entries |-> entries, sync_points |-> sync_points,
                   writes |-> writes, flushes |-> flushes,
                   inits |-> shut.inits])))

(* The write, flush, append, writeback, retire and shut_down paths.        *)
Next ==
    \/ AioWrite
    \/ AioFlush
    \/ FlushThenAppend
    \/ AppendScheduledOps
    \/ CompleteOpLogEntries
    \/ ProcessWork
    \/ ProcessWorkIterate
    \/ RetireEntries
    \/ RetireTransaction
    \/ LowerWrite
    \/ LowerWriteComplete
    \/ ShutDown
    \/ ShutDownFlush
    \/ ShutDownCloseLog

Spec == Init /\ [][Next]_vars

(* Reads against persist-on-write writes, their writeback and retirement.  *)
NextRead ==
    \/ AioWrite
    \/ AioRead
    \/ ReadBufferRelease
    \/ AppendScheduledOps
    \/ CompleteOpLogEntries
    \/ ProcessWork
    \/ ProcessWorkIterate
    \/ RetireEntries
    \/ RetireTransaction
    \/ LowerWrite
    \/ LowerWriteComplete

SpecRead == Init /\ [][NextRead]_vars

(* Caller threads that read on their own, step by step, while the log      *)
(* entries of one aio_write are appended, written back and retired.  The   *)
(* run starts when that aio_write has returned.                            *)
InitReaders ==
    \E image_extents \in WriteInputs :
       StateIs(aio_write(
           rwl_init(Constructed(NoPool, LowerInit, FALSE,
               [entries |-> << >>, sync_points |-> << >>, writes |-> << >>,
                flushes |-> << >>, inits |-> 0])),
           image_extents))

NextReaders ==
    \/ ReaderStep
    \/ AppendScheduledOps
    \/ CompleteOpLogEntries
    \/ ProcessWork
    \/ ProcessWorkIterate
    \/ RetireEntries
    \/ RetireTransaction
    \/ LowerWrite
    \/ LowerWriteComplete

SpecReaders == InitReaders /\ [][NextReaders]_vars

(* The paths of Spec, and init on the pool that a shut_down has left.      *)
NextRestart ==
    \/ Next
    \/ ReInit

SpecRestart == Init /\ [][NextRestart]_vars

(* Caller thread t calls alloc_write_resources for its write request: for  *)
(* a new request, or again for the request that was refused before, as     *)
(* dispatch_deferred_writes does.                                          *)
AllocEnter(t) ==
    /\ Running
    /\ \/ allocs[t].pc = "idle"
       \/ allocs[t].pc = "returned" /\ ~ allocs[t].ret
    /\ \E num_extents \in 1 .. MaxExtents :
          /\ allocs[t].pc = "returned" => num_extents = allocs[t].num_extents
          /\ SetState(alloc_first_check(CurState, t, num_extents))

AllocReserve(t) ==
    /\ allocs[t].pc = "reserve"
    /\ SetState(alloc_reserve_buffer(CurState, t))

AllocRecheck(t) ==
    /\ allocs[t].pc = "recheck"
    /\ SetState(alloc_second_check(CurState, t))

AllocReturn(t) ==
    /\ allocs[t].pc = "finish"
    /\ SetState(alloc_return(CurState, t))

(* Caller threads that run alloc_write_resources at the same time, on the  *)
(* log as init leaves it.                                                  *)
NextAlloc ==
    \E t \in 1 .. NumAllocators :
       \/ AllocEnter(t)
       \/ AllocReserve(t)
       \/ AllocRecheck(t)
       \/ AllocReturn(t)

SpecAlloc == Init /\ [][NextAlloc]_vars

(* Writes in persist-on-write mode, shut_down, and init on the pool that   *)
(* the shut_down has left.                                                 *)
NextReopen ==
    \/ AioWrite
    \/ AppendScheduledOps
    \/ CompleteOpLogEntries
    \/ ProcessWork
    \/ ProcessWorkIterate
    \/ RetireEntries
    \/ RetireTransaction
    \/ LowerWrite
    \/ LowerWriteComplete
    \/ ShutDown
    \/ ShutDownFlush
    \/ ShutDownCloseLog
    \/ ReInit

SpecReopen == Init /\ [][NextReopen]_vars

(* Long writes of AppendExtents extents, more than one append batch takes,  *)
(* and short writes past the range the guard keeps for the long ones, on a *)
(* ring that the second long write wraps; the work-queue threads run       *)
(* append_scheduled_ops step by step and the lower layer completes each    *)
(* write as it performs it.                                                *)
LongWrite == [k \in 1 .. AppendExtents |-> << k - 1, 1 >>]

AppendInputs == {LongWrite, << << AppendExtents + 1, 1 >> >>}

(* A run starts when a first long write has been dispatched.               *)
InitAppend ==
    StateIs(aio_write(rwl_init(Constructed(PoolOfSize(AppendRingSlots),
                LowerInit, FALSE,
                [entries |-> << >>, sync_points |-> << >>, writes |-> << >>,
                 flushes |-> << >>, inits |-> 0])),
              LongWrite))

AioWriteAppend ==
    /\ Running
    /\ Len(writes) < MaxAppendWrites
    /\ \E image_extents \in AppendInputs :
          SetState(aio_write(CurState, image_extents))

(* Thread t, the first idle one, takes the append context off the work     *)
(* queue.                                                                  *)
AppendStart(t) ==
    /\ failure = ""
    /\ appenders[t].pc = "idle"
    /\ \A u \in 1 .. (t - 1) : appenders[u].pc /= "idle"
    /\ op_work_queue /= << >>
    /\ Head(op_work_queue).type = "append_ctx"
    /\ SetState([Dequeued EXCEPT !.appenders[t].pc = "loop"])

AppendTake(t) ==
    /\ failure = ""
    /\ appenders[t].pc = "loop"
    /\ AppendLockFree(CurState)
    /\ SetState(append_take_batch(CurState, t))

AppendAlloc(t) ==
    /\ failure = ""
    /\ appenders[t].pc = "alloc"
    /\ SetState(append_alloc_batch(CurState, t))

AppendWrite(t) ==
    /\ failure = ""
    /\ appenders[t].pc = "append"
    /\ SetState(append_write_batch(CurState, t))

AppendComplete(t) ==
    /\ failure = ""
    /\ appenders[t].pc = "complete"
    /\ SetState(append_complete_batch(CurState, t))

(* The lower layer performs the oldest write it holds and completes it at  *)
(* once, with success.                                                     *)
LowerWriteAtOnce ==
    /\ failure = ""
    /\ lower.queue /= << >>
    /\ LET write == Head(lower.queue)
       IN  SetState(FlushWriteCompletion(
             [CurState EXCEPT !.lower.image = LowerApply(@, write, 0),
                              !.lower.queue = Tail(@),
                              !.entries[write.entry].reader_count = @ - 1],
             write.entry, 0))

NextAppend ==
    \/ AioWriteAppend
    \/ \E t \in 1 .. NumAppenders :
          \/ AppendStart(t)
          \/ AppendTake(t)
          \/ AppendAlloc(t)
          \/ AppendWrite(t)
          \/ AppendComplete(t)
    \/ CompleteOpLogEntries
    \/ ProcessWork
    \/ ProcessWorkIterate
    \/ RetireEntries
    \/ RetireTransaction
    \/ LowerWriteAtOnce

SpecAppend == InitAppend /\ [][NextAppend]_vars

(* Writes of the whole image, one log entry each, on a ring with room for  *)
(* all of them, and their writeback by a lower layer so slow that none of  *)
(* its completions arrives within the run: nothing becomes flushed and     *)
(* retire_entries finds nothing to retire.                                 *)
InitWriteback ==
    StateIs(rwl_init(Constructed(PoolOfSize(MaxWritebackWrites + 2), LowerInit,
                FALSE,
                [entries |-> << >>, sync_points |-> << >>, writes |-> << >>,
                 flushes |-> << >>, inits |-> 0])))

(* The caller writes the whole image again when its last write has been   *)
(* acknowledged and released.                                             *)
AioWriteImage ==
    /\ Running
    /\ Len(writes) < MaxWritebackWrites
    /\ \A w \in DOMAIN writes : writes[w].released
    /\ \E image_extents \in {<< << 0, NumBlocks >> >>} :
          SetState(aio_write(CurState, image_extents))

(* No wake-up is requested while the work function is between its         *)
(* writeback and its retire, so process_work never iterates in these runs. *)
NextWriteback ==
    \/ AioWriteImage
    \/ AppendScheduledOps
    \/ CompleteOpLogEntries
    \/ ProcessWork
    \/ RetireEntries
    \/ LowerWrite

SpecWriteback == InitWriteback /\ [][NextWriteback]_vars

(* Writes that wait for log entries while the work function and the        *)
(* callers' threads run dispatch_deferred_writes.  The guarded range of a  *)
(* request reaches one block past its last byte, so the callers write      *)
(* every other block, also past the blocks whose content the model keeps   *)
(* for the lower layer.                                                    *)
(* A run starts when a first write of two extents has taken both log       *)
(* entries of the ring.                                                    *)
DeferredInputs == {<< << 2 * i, 1 >> >> : i \in 0 .. 2}

InitDeferred ==
    StateIs(aio_write(rwl_init(Constructed(NoPool, LowerInit, FALSE,
                [entries |-> << >>, sync_points |-> << >>, writes |-> << >>,
                 flushes |-> << >>, inits |-> 0])),
              << << 0, 1 >>, << 2, 1 >> >>))

AioWriteDeferred ==
    /\ Running
    /\ Len(writes) < MaxDeferredWrites
    /\ \E image_extents \in DeferredInputs :
          SetState(aio_write(CurState, image_extents))

NextDeferred ==
    \/ AioWriteDeferred
    \/ AppendScheduledOps
    \/ CompleteOpLogEntries
    \/ ProcessWorkEnter
    \/ DeferredTake
    \/ DeferredDispatch
    \/ RetireEntries
    \/ RetireTransaction
    \/ LowerWrite
    \/ LowerWriteComplete

SpecDeferred == InitDeferred /\ [][NextDeferred]_vars

(* Writes against an image that becomes read-only, or gets a snapshot set, *)
(* and writable again while the cache runs: aio_write reads                *)
(* m_image_ctx.read_only and snap_id under snap_lock at each call.         *)
ImageReadOnlyChange ==
    /\ Running
    /\ SetState([CurState EXCEPT !.read_only = ~ @])

NextReject ==
    \/ AioWrite
    \/ ImageReadOnlyChange
    \/ AppendScheduledOps
    \/ CompleteOpLogEntries
    \/ ProcessWork
    \/ ProcessWorkIterate
    \/ RetireEntries
    \/ RetireTransaction
    \/ LowerWrite
    \/ LowerWriteComplete

SpecReject == Init /\ [][NextReject]_vars

(* Discards and invalidates among writes, their writeback and retirement.  *)
AioDiscard ==
    /\ Running
    /\ Len(discards) < MaxDiscards
    /\ \E extent \in ImageExtents :
          SetState(aio_discard(CurState, extent[1], extent[2]))

Invalidate ==
    /\ Running
    /\ Len(discards) < MaxDiscards
    /\ SetState(invalidate(CurState))

(* The lower layer completes the invalidate or the discard it was handed;  *)
(* the blocks of a discard read as never written from then on.             *)
LowerDiscardComplete ==
    /\ failure = ""
    /\ \E d \in DOMAIN discards :
          /\ discards[d].stage = "lower"
          /\ LET extent == discards[d].extent
                 s1 == IF discards[d].kind = "discard"
                       THEN [CurState EXCEPT !.lower.image =
                               [b \in Blocks |->
                                  IF extent[1] <= b /\ b < extent[1] + extent[2]
                                  THEN << 0, b >> ELSE @[b]]]
                       ELSE CurState
             IN  SetState(DiscardFinish(s1, d, 0))

NextDiscard ==
    \/ AioWrite
    \/ AioDiscard
    \/ Invalidate
    \/ LowerDiscardComplete
    \/ AppendScheduledOps
    \/ CompleteOpLogEntries
    \/ ProcessWork
    \/ ProcessWorkIterate
    \/ RetireEntries
    \/ RetireTransaction
    \/ LowerWrite
    \/ LowerWriteComplete

SpecDiscard == Init /\ [][NextDiscard]_vars

(* ------------------------- the index on its own ------------------------ *)
(* SpecMap drives the WriteLogMap alone: log entries over MapBlocks blocks *)
(* are added one by one or as a list, and removed, in any order.  Here     *)
(* m_log_entries holds the entries added and not yet removed.              *)
MapExtents ==
    {x \in (0 .. (MapBlocks - 1)) \X (1 .. MapBlocks) : x[1] + x[2] <= MapBlocks}

NewLogEntry(s, extent) ==
    [s EXCEPT !.entries = Append(@, WriteLogEntry(0, 0, extent[1], extent[2]))]

InitMap ==
    StateIs(Constructed(NoPool, LowerInit, FALSE,
                [entries |-> << >>, sync_points |-> << >>, writes |-> << >>,
                 flushes |-> << >>, inits |-> 0]))

MapAddLogEntry ==
    /\ Len(entries) < MaxMapEntries
    /\ \E extent \in MapExtents :
         LET e == Len(entries) + 1
             s1 == add_log_entry_locked(NewLogEntry(CurState, extent), e)
         IN  SetState([s1 EXCEPT !.m_log_entries = Append(@, e)])

MapAddLogEntries ==
    /\ Len(entries) + 2 <= MaxMapEntries
    /\ \E first \in MapExtents, second \in MapExtents :
         LET e == Len(entries) + 1
             s1 == NewLogEntry(NewLogEntry(CurState, first), second)
             s2 == add_log_entries(s1, << e, e + 1 >>)
         IN  SetState([s2 EXCEPT !.m_log_entries = @ \o << e, e + 1 >>])

MapRemoveLogEntry ==
    \E i \in DOMAIN m_log_entries :
       LET e == m_log_entries[i]
           s1 == remove_log_entry_locked(CurState, e)
       IN  SetState([s1 EXCEPT !.m_log_entries =
                        SubSeq(@, 1, i - 1) \o SubSeq(@, i + 1, Len(@))])

NextMap ==
    \/ MapAddLogEntry
    \/ MapAddLogEntries
    \/ MapRemoveLogEntry

SpecMap == InitMap /\ [][NextMap]_vars

(* Writes whose extents may be of length zero: aio_write lets them through *)
(* (is_block_aligned holds for a length of 0) and dispatch_aio_write makes *)
(* a log entry for each extent and hands the list to add_log_entries.      *)
ZeroExtents ==
    MapExtents \cup {<< offset, 0 >> : offset \in 0 .. (MapBlocks - 1)}

ZeroExtentLists ==
    {<< x >> : x \in ZeroExtents}
       \cup {<< x, y >> : x \in ZeroExtents, y \in ZeroExtents}

RECURSIVE NewLogEntries(_, _)
NewLogEntries(s, image_extents) ==
    IF image_extents = << >> THEN s
    ELSE NewLogEntries(NewLogEntry(s, Head(image_extents)), Tail(image_extents))

WriteAddsLogEntries ==
    /\ failure = ""
    /\ \E image_extents \in ZeroExtentLists :
         /\ Len(entries) + Len(image_extents) <= MaxMapEntries
         /\ \A i \in DOMAIN image_extents : is_block_aligned(image_extents[i])
         /\ LET log_entries == [i \in DOMAIN image_extents |-> Len(entries) + i]
                s1 == NewLogEntries(CurState, image_extents)
                s2 == add_log_entries(s1, log_entries)
            IN  SetState([s2 EXCEPT !.m_log_entries = @ \o log_entries])

NextZeroExtent == WriteAddsLogEntries

SpecZeroExtent == InitMap /\ [][NextZeroExtent]_vars

(* ------------------------------- claims -------------------------------- *)
Intersect(m1, m2) ==
    m1.block_start <= m2.block_end /\ m2.block_start <= m1.block_end

MapEntriesOf(e) == {m \in m_block_to_log_entry_map : m.log_entry = e}

(* C7: after any sequence of add_log_entry, add_log_entries and            *)
(* remove_log_entry calls no two distinct map entries of the index have    *)
(* intersecting block extents, every map entry lies inside the extent of   *)
(* its log entry, and no assertion of the index has failed.                *)
C7_NoIntersectingMapEntries ==
    /\ \A m1 \in m_block_to_log_entry_map, m2 \in m_block_to_log_entry_map :
          m1 /= m2 => ~ Intersect(m1, m2)
    /\ \A m \in m_block_to_log_entry_map :
          /\ m.block_start <= m.block_end
          /\ entry_block_extent(entries[m.log_entry]).block_start <= m.block_start
          /\ m.block_end <= entry_block_extent(entries[m.log_entry]).block_end
    /\ failure = ""

(* An older entry has been split in two by a newer one that lies strictly  *)
(* inside it, a second has been shrunk and the index holds three entries'  *)
(* pieces.                                                                 *)
C7_Witness ==
    \E e \in DOMAIN entries, n \in DOMAIN entries :
       /\ e < n
       /\ Cardinality(MapEntriesOf(e)) = 2
       /\ Cardinality(MapEntriesOf(n)) = 1
       /\ \E l \in MapEntriesOf(e), r \in MapEntriesOf(e), m \in MapEntriesOf(n) :
             l.block_end + 1 = m.block_start /\ m.block_end + 1 = r.block_start

(* C8: for every log entry, referring_map_entries equals the number of map *)
(* entries of the index that refer to it, and it is 0 for an entry that    *)
(* remove_log_entry has removed.                                           *)
C8_ReferringMapEntriesCount ==
    \A e \in DOMAIN entries :
       /\ entries[e].referring_map_entries = Cardinality(MapEntriesOf(e))
       /\ e \notin Range(m_log_entries) => entries[e].referring_map_entries = 0

(* A split entry counts two references while another entry, three or more  *)
(* blocks long, has been removed.                                         *)
C8_Witness ==
    /\ \E e \in Range(m_log_entries) :
          entries[e].referring_map_entries = 2
    /\ \E e \in DOMAIN entries :
          /\ e \notin Range(m_log_entries)
          /\ entries[e].write_bytes >= 3

(* Write w was accepted and names block b.                                 *)
Covers(w, b) ==
    \E i \in DOMAIN writes[w].m_image_extents :
       /\ writes[w].m_image_extents[i][1] <= b
       /\ b < writes[w].m_image_extents[i][1] + writes[w].m_image_extents[i][2]

(* C1: a read issued after two overlapping writes W1 and W2 have completed *)
(* successfully, W2 dispatched after W1, returns for every block of the    *)
(* overlap the byte that W2, or a write dispatched after W2, wrote there;  *)
(* whether the entries are in the map, written back or retired.            *)
C1_ReadReturnsLatestWrite ==
    last_read.issued =>
      \A j \in 1 .. last_read.image_extent[2] :
         LET b == last_read.image_extent[1] + j - 1
         IN  \A W1 \in last_read.acked, W2 \in last_read.acked :
                (/\ Covers(W1, b) /\ Covers(W2, b)
                 /\ writes[W1].dispatched < writes[W2].dispatched)
                => /\ j <= Len(last_read.bl)
                   /\ last_read.bl[j][2] = b
                   /\ last_read.bl[j][1] \in DOMAIN writes
                   /\ writes[last_read.bl[j][1]].dispatched
                        >= writes[W2].dispatched

(* The image that the accepted writes leave when applied one after the     *)
(* other in the order of the aio_write calls.                              *)
SerialImage ==
    [b \in Blocks |->
       LET writers == {w \in DOMAIN writes :
                          writes[w].user_req_result = 0 /\ Covers(w, b)}
       IN  IF writers = {} THEN << 0, b >>
           ELSE << CHOOSE w \in writers : \A v \in writers : v <= w, b >>]

(* C2: when writes, then an aio_flush that succeeds, then a shut_down      *)
(* called after all their callbacks, have run to the end, the lower layer  *)
(* holds the image that the writes leave when applied serially in          *)
(* submission order.                                                       *)
C2_ShutDownLeavesSerialImage ==
    (/\ shut.stage = "done"
     /\ failure = ""
     /\ shut.quiesced
     /\ \E f \in DOMAIN flushes :
           /\ flushes[f].writes_before = Len(writes)
           /\ flushes[f].calls = 1
           /\ flushes[f].result = 0)
    => lower.image = SerialImage

(* C3: in persist-on-flush mode, when the callback of an aio_flush has     *)
(* completed successfully, every write whose user callback had completed   *)
(* before the aio_flush call had all its log entries appended at that      *)
(* moment: the slots written with entry_valid = 1 and the root's           *)
(* first_free_entry committed past them.                                   *)
C3_FlushCoversCompletedWrites ==
    \A f \in DOMAIN flushes :
       (/\ flushes[f].persist_on_flush
        /\ flushes[f].calls > 0
        /\ flushes[f].result = 0)
       => flushes[f].prior_appended

(* A flush has completed whose call came after a persist-on-flush write    *)
(* was acknowledged ahead of its append.                                   *)
C3_Witness ==
    \E f \in DOMAIN flushes :
       /\ flushes[f].persist_on_flush
       /\ flushes[f].calls = 1
       /\ flushes[f].result = 0
       /\ flushes[f].prior_appended
       /\ \E w \in flushes[f].prior :
             writes[w].m_persist_on_flush /\ ~ writes[w].acked_appended

(* C4: a write dispatched in persist-on-write mode has its user callback   *)
(* completed only when all its log entries are appended; a write           *)
(* dispatched in persist-on-flush mode, which needs an earlier aio_flush,  *)
(* has it completed in dispatch, before any of them is appended.           *)
C4_AckPointFollowsPersistMode ==
    \A w \in DOMAIN writes :
       /\ (writes[w].m_op_set /\ writes[w].m_persist_on_flush) => m_flush_seen
       /\ (writes[w].user_req_calls > 0 /\ writes[w].user_req_result = 0)
          => /\ writes[w].m_op_set
             /\ writes[w].m_persist_on_flush <=> ~ writes[w].acked_appended

(* Both kinds of write have been acknowledged, the persist-on-write one    *)
(* with two log entries.                                                   *)
C4_Witness ==
    /\ \E w \in DOMAIN writes :
          /\ writes[w].user_req_calls = 1 /\ writes[w].user_req_result = 0
          /\ ~ writes[w].m_persist_on_flush
          /\ Len(writes[w].operations) = 2
    /\ \E w \in DOMAIN writes :
          /\ writes[w].user_req_calls = 1 /\ writes[w].user_req_result = 0
          /\ writes[w].m_persist_on_flush

(* C5: the user callback of an aio_write is never invoked twice, and it    *)
(* has been invoked exactly once, with -EROFS, when the image is read-only *)
(* and exactly once when complete_write_req has released the request.      *)
C5_UserCallbackOnce ==
    \A w \in DOMAIN writes :
       /\ writes[w].user_req_calls <= 1
       /\ writes[w].released => writes[w].user_req_calls = 1
       /\ read_only =>
             writes[w].user_req_calls = 1 /\ writes[w].user_req_result = -EROFS

(* A persist-on-flush write has gone through dispatch, finish and          *)
(* complete_write_req.                                                     *)
C5_Witness ==
    \E w \in DOMAIN writes :
       /\ writes[w].m_persist_on_flush
       /\ writes[w].released
       /\ writes[w].user_req_calls = 1

(* C6: every aio_flush eventually invokes its callback, also when the     *)
(* sync point it seals has no outstanding sub-operation.  For that, no     *)
(* aio_flush whose callback is outstanding may be stopped for good inside  *)
(* new_sync_point, on the m_lock that its own thread holds.                *)
C6_FlushNeverBlocksOnItsLock ==
    \A f \in DOMAIN flushes :
       flushes[f].calls = 0 => failure /= "m_lock locked again by its owner"

(* The entries the ring holds: appended and not yet retired.               *)
RingEntries == Len(m_log_entries) + Len(worker.retiring)

(* C9: the ring holds no appended and unretired entry exactly when         *)
(* m_first_free_entry = m_first_valid_entry.                               *)
C9_EmptyIffCursorsEqual ==
    (RingEntries = 0) <=> (m_first_free_entry = m_first_valid_entry)

(* No write is between alloc_write_resources and its append, and no        *)
(* retire_entries is between its scan and its commit.                      *)
Quiescent == m_unpublished_reserves = 0 /\ worker.retiring = << >>

(* C10: at every quiescent moment, with N the ring slots of which one is   *)
(* kept unusable, (first_free - first_valid) mod N <= N - 1 and            *)
(* m_free_log_entries = (first_valid - first_free - 1) mod N.              *)
C10_FreeEntriesFollowCursors ==
    LET N == m_total_log_entries + 1
    IN  (Quiescent /\ m_total_log_entries > 0) =>
          /\ (m_first_free_entry - m_first_valid_entry + N) % N <= N - 1
          /\ m_free_log_entries
               = (m_first_valid_entry - m_first_free_entry - 1 + N) % N

Borrowed(e) ==
    Cardinality({p \in (1 .. NumReaders) \X (1 .. NumBlocks) :
                    /\ p[2] \in DOMAIN readers[p[1]].hits
                    /\ readers[p[1]].hits[p[2]] = e
                    /\ \/ /\ readers[p[1]].pc \in {"add", "add_store"}
                          /\ p[2] < readers[p[1]].k
                       \/ /\ readers[p[1]].pc \in {"hold", "remove_store"}
                          /\ p[2] >= readers[p[1]].k})
    + Cardinality({i \in DOMAIN lower.queue : lower.queue[i].entry = e})
    + Cardinality({d \in lower.done : d.entry = e})

(* C12: under any interleaving of aio_read calls, writeback buffer         *)
(* construction, buffer deleters and retire_entries, reader_count of every *)
(* log entry equals the number of buffers that borrow its data buffer, and *)
(* no entry whose buffer is borrowed is selected for retirement or has its *)
(* buffer freed.                                                           *)
C12_ReaderCountMatchesBorrowers ==
    \A e \in DOMAIN entries :
       /\ entries[e].reader_count = Borrowed(e)
       /\ Borrowed(e) > 0 =>
             /\ e \notin Range(worker.retiring)
             /\ entries[e].pmem_buffer /= << >>

(* C13: a log entry is handed to the lower layer for writeback only when   *)
(* it is completed and the flush writes in flight are below               *)
(* IN_FLIGHT_FLUSH_WRITE_LIMIT, so that m_flush_ops_in_flight never        *)
(* exceeds IN_FLIGHT_FLUSH_WRITE_LIMIT.                                    *)
C13_FlushesInFlightWithinLimit ==
    /\ \A e \in DOMAIN entries : entries[e].flushing => entries[e].completed
    /\ m_flush_ops_in_flight <= IN_FLIGHT_FLUSH_WRITE_LIMIT

(* C14: the write_sequence_number of a log entry is 0 exactly when its     *)
(* write was dispatched in persist-on-flush mode, and then sequenced = 0;  *)
(* the entry of a persist-on-write operation has sequenced = 1 and a       *)
(* number above 0 and above the number of every persist-on-write operation *)
(* dispatched before it in the same sync generation.                       *)
C14_SequenceNumbersFollowMode ==
    \A e \in DOMAIN entries :
       LET w == entries[e].request
       IN  /\ (entries[e].write_sequence_number = 0)
                 <=> writes[w].m_persist_on_flush
           /\ writes[w].m_persist_on_flush => entries[e].sequenced = 0
           /\ ~ writes[w].m_persist_on_flush =>
                 /\ entries[e].write_sequence_number > 0
                 /\ entries[e].sequenced = 1
                 /\ \A d \in DOMAIN entries :
                       (/\ d < e
                        /\ ~ writes[entries[d].request].m_persist_on_flush
                        /\ entries[d].sync_gen_number = entries[e].sync_gen_number)
                       => entries[d].write_sequence_number
                            < entries[e].write_sequence_number

(* Two persist-on-write requests of two operations each have been          *)
(* dispatched in the same sync generation.                                 *)
C14_Witness ==
    \E d \in DOMAIN entries, e \in DOMAIN entries :
       /\ entries[d].request < entries[e].request
       /\ entries[d].sequenced = 1 /\ entries[e].sequenced = 1
       /\ entries[d].sync_gen_number = entries[e].sync_gen_number
       /\ Len(writes[entries[d].request].operations) = 2
       /\ Len(writes[entries[e].request].operations) = 2

(* C15: append_sync_point is invoked for a sync point only if that sync    *)
(* point had been sealed by a later new_sync_point, every log entry bound  *)
(* to it had been appended and completed by then, and append_sync_point    *)
(* had run to its end for the sync point of the generation before; it is   *)
(* invoked at most once for a sync point, so sync points persist in        *)
(* increasing generation order.                                            *)
C15_SyncPointsAppendInOrder ==
    /\ \A p \in DOMAIN sync_points :
          /\ sync_points[p].append_calls <= 1
          /\ sync_points[p].persisted => sync_points[p].append_calls = 1
          /\ sync_points[p].sync_gen_num = p - 1
          /\ sync_points[p].append_calls > 0 =>
                /\ sync_points[p].activated
                /\ sync_points[p].later_sync_point = p + 1
                /\ sync_points[p].ops_persisted
                /\ sync_points[p].m_writes_completed = sync_points[p].m_writes
                /\ p > 1 => sync_points[p - 1].persisted
    /\ failure /= "assert sync_point->later_sync_point"

(* The sync points of two generations have been appended, both with log    *)
(* entries bound to them.                                                  *)
C15_Witness ==
    \E p \in DOMAIN sync_points :
       /\ p > 1
       /\ sync_points[p].persisted /\ sync_points[p].m_writes > 0
       /\ sync_points[p - 1].persisted /\ sync_points[p - 1].m_writes > 0

(* C16: the writes placed on the deferred queue reach dispatch_aio_write   *)
(* in the order in which they were placed on it: when a deferred write has *)
(* been dispatched, every write deferred before it has been dispatched     *)
(* before it.                                                              *)
C16_DeferredWritesDispatchInOrder ==
    \A v \in DOMAIN writes, w \in DOMAIN writes :
       (/\ writes[v].deferred > 0
        /\ writes[v].deferred < writes[w].deferred
        /\ writes[w].dispatched > 0)
       => /\ writes[v].dispatched > 0
          /\ writes[v].dispatched < writes[w].dispatched

(* C17: a write deferred for lack of resources is dispatched once they are *)
(* free, with no further request from outside.  When nothing is left that  *)
(* would run by itself (no context queued on the work queue, the work      *)
(* function not running, no write at the lower layer), the write at the    *)
(* front of the deferred queue is one whose resources are not available.   *)
NothingPending ==
    /\ Running
    /\ op_work_queue = << >>
    /\ worker.pc = "idle"
    /\ lower.queue = << >>
    /\ lower.done = {}

C17_DeferredWriteNotStranded ==
    (NothingPending /\ m_deferred_ios /= << >>)
    => ~ CanAllocWriteResources(CurState, Head(m_deferred_ios))

(* The image extents of the first n write requests that hold the resources *)
(* alloc_write_resources gave them.                                        *)
RECURSIVE LanesAllocated(_)
LanesAllocated(n) ==
    IF n = 0 THEN 0
    ELSE LanesAllocated(n - 1)
         + (IF writes[n].allocated THEN Len(writes[n].m_image_extents) ELSE 0)

(* C18: m_free_lanes stays within 0 .. MAX_CONCURRENT_WRITES, the lanes    *)
(* taken are the image extents of the write requests that hold allocated   *)
(* resources, and when every write has completed all lanes are free.       *)
C18_FreeLanesAccountForWrites ==
    /\ m_free_lanes \in 0 .. MAX_CONCURRENT_WRITES
    /\ MAX_CONCURRENT_WRITES - m_free_lanes = LanesAllocated(Len(writes))
    /\ (\A w \in DOMAIN writes : writes[w].released)
          => m_free_lanes = MAX_CONCURRENT_WRITES

C18_Witness ==
    \E v \in DOMAIN writes, w \in DOMAIN writes :
       /\ writes[v].released /\ Len(writes[v].m_image_extents) = 2
       /\ writes[w].allocated /\ ~ writes[w].released
       /\ m_free_lanes = MAX_CONCURRENT_WRITES - Len(writes[w].m_image_extents)

(* The blocks of the image extents in a sequence of extents.               *)
BlocksOf(extents) ==
    {b \in 0 .. MapBlocks :
       \E i \in DOMAIN extents :
          extents[i][1] <= b /\ b < extents[i][1] + extents[i][2]}

(* C19: an aligned read whose every block is named by a map entry at the   *)
(* lookup sends nothing to the lower layer, completes with 0 and takes     *)
(* every byte from log entry buffers; the lower layer is read exactly when *)
(* some block of the read is not named by a map entry, and then for the    *)
(* blocks that are not, and no others.                                     *)
C19_LowerReadOnlyForMisses ==
    last_read.issued =>
      LET blocks == BlocksOf(<< last_read.image_extent >>)
          miss_extents == MissExtents(last_read.m_read_extents)
      IN  /\ blocks \subseteq last_read.covered
               => /\ miss_extents = << >>
                  /\ last_read.r = 0
                  /\ \A i \in DOMAIN last_read.m_read_extents :
                        last_read.m_read_extents[i].entry /= 0
                  /\ Len(last_read.bl) = last_read.image_extent[2]
          /\ miss_extents /= << >> <=> blocks \ last_read.covered /= {}
          /\ BlocksOf(miss_extents) = blocks \ last_read.covered
          /\ \A i \in DOMAIN miss_extents : miss_extents[i][2] > 0

C19_Witness ==
    /\ last_read.issued
    /\ last_read.image_extent[2] = NumBlocks
    /\ Len(last_read.m_read_extents) = 2
    /\ MissExtents(last_read.m_read_extents) = << >>
    /\ last_read.m_read_extents[1].entry /= last_read.m_read_extents[2].entry

(* The block ranges that writes v and w hand to the guard overlap.         *)
GuardedRangesOverlap(v, w) ==
    /\ writes[v].m_image_extents_summary.first_block
         <= writes[w].m_image_extents_summary.last_block
    /\ writes[w].m_image_extents_summary.first_block
         <= writes[v].m_image_extents_summary.last_block

(* The log entries that the dispatch of write w has created.               *)
EntriesOf(w) == {e \in DOMAIN entries : entries[e].request = w}

(* The place of log entry e in the ring, counted from m_first_valid_entry. *)
RingPosition(e) ==
    (entries[e].log_entry_index - m_first_valid_entry + m_total_log_entries)
       % m_total_log_entries

(* C20: of two writes whose guarded block ranges overlap, the one that     *)
(* gets its cell second has no log entry, no map entry and no sequence     *)
(* number while the first holds its cell; when it is dispatched every log  *)
(* entry of the first has completed its append and the first has released  *)
(* its cell.  Its log entries follow those of the first in the ring and,   *)
(* when sequenced, carry higher write_sequence_numbers.                    *)
C20_OverlappingWritesSerialized ==
    \A v \in DOMAIN writes, w \in DOMAIN writes :
       (v /= w /\ GuardedRangesOverlap(v, w)) =>
          /\ writes[w].m_cell = 0 =>
                /\ writes[w].dispatched = 0
                /\ EntriesOf(w) = {}
                /\ \A me \in m_block_to_log_entry_map :
                      entries[me.log_entry].request /= w
          /\ (writes[v].m_cell /= 0 /\ ~ writes[v].released)
                => (writes[w].m_cell = 0 \/ writes[w].released)
          /\ (writes[v].dispatched > 0
              /\ writes[v].dispatched < writes[w].dispatched) =>
                /\ writes[v].released
                /\ \A e1 \in EntriesOf(v) :
                      /\ entries[e1].appended /\ entries[e1].completed
                      /\ \A e2 \in EntriesOf(w) :
                            /\ (entries[e1].sequenced = 1
                                /\ entries[e2].sequenced = 1)
                               => entries[e1].write_sequence_number
                                    < entries[e2].write_sequence_number
                            /\ (e1 \in Range(m_log_entries)
                                /\ e2 \in Range(m_log_entries))
                               => RingPosition(e1) < RingPosition(e2)

C20_Witness ==
    \E v \in DOMAIN writes, w \in DOMAIN writes :
       /\ GuardedRangesOverlap(v, w)
       /\ writes[v].dispatched > 0
       /\ writes[v].dispatched < writes[w].dispatched
       /\ writes[w].detained
       /\ \E e1 \in EntriesOf(v), e2 \in EntriesOf(w) :
             /\ e1 \in Range(m_log_entries) /\ e2 \in Range(m_log_entries)
             /\ entries[e2].appended
             /\ entries[e2].write_sequence_number
                  > entries[e1].write_sequence_number

(* The last block that the image extents of write w name.                  *)
LastBlockWritten(w) ==
    (writes[w].m_image_extents_summary.last_image_byte - 1) \div MIN_WRITE_SIZE

(* The blocks from the first to the last that the extents of w name.       *)
BlockSpan(w) ==
    writes[w].m_image_extents_summary.first_block .. LastBlockWritten(w)

(* C21: the range a write hands to the guard is the inclusive block extent *)
(* its image extents span, and a write waits behind a cell only when that  *)
(* extent shares a block with the extent of the write holding the cell:    *)
(* writes to disjoint (also adjacent) block extents never detain each      *)
(* other.                                                                  *)
C21_GuardSerializesOverlapOnly ==
    \A c \in m_write_log_guard :
       /\ c.first = writes[c.id].m_image_extents_summary.first_block
       /\ c.last = LastBlockWritten(c.id)
       /\ \A i \in DOMAIN c.block_operations :
             BlockSpan(c.block_operations[i].req) \cap BlockSpan(c.id) /= {}

(* Everything but the record of the callers' write requests.               *)
CacheState ==
    << entries, m_block_to_log_entry_map, m_log_entries, m_dirty_log_entries,
       m_first_free_entry, m_first_valid_entry, m_total_log_entries,
       m_free_log_entries, m_free_lanes, m_unpublished_reserves,
       m_persist_on_flush, m_flush_seen, m_current_sync_gen,
       m_last_op_sequence_num, m_current_sync_point, sync_points,
       m_deferred_ios, m_ops_to_flush, m_ops_to_append, m_wake_up_requested,
       m_wake_up_scheduled, m_wake_up_enabled, m_flush_ops_in_flight,
       m_flush_bytes_in_flight, m_flush_complete_contexts, m_async_op_tracker,
       m_write_log_guard, flushes, op_work_queue, worker, pool_root, lower,
       last_read, readers, discards, allocs, appenders, shut, read_only,
       failure >>

(* The request of an aio_write that was turned away with result r.         *)
Rejected(image_extents, r) ==
    [C_WriteRequest(image_extents) EXCEPT !.user_req_calls = 1,
                                          !.user_req_result = r]

(* C22: an aio_write on a read-only image (or with a snapshot set)         *)
(* completes its callback with -EROFS before it returns, one with an       *)
(* extent that is not block aligned with -EINVAL, and neither changes the  *)
(* cache: no cell, lane, log entry or buffer is taken, the deferred queue, *)
(* the map, the log and the sync points stay as they were.                 *)
C22_RejectedWriteChangesNothing ==
    [][ Len(writes') = Len(writes) + 1 =>
          LET w == Len(writes')
              image_extents == writes'[w].m_image_extents
              unaligned == \E i \in DOMAIN image_extents :
                              ~ is_block_aligned(image_extents[i])
          IN  /\ read_only =>
                   /\ writes' = Append(writes, Rejected(image_extents, -EROFS))
                   /\ UNCHANGED CacheState
              /\ (~ read_only /\ unaligned) =>
                   /\ writes' = Append(writes, Rejected(image_extents, -EINVAL))
                   /\ UNCHANGED CacheState
              /\ (~ read_only /\ ~ unaligned) => writes'[w].user_req_result = 0
      ]_vars

C22_Witness ==
    /\ read_only
    /\ m_log_entries /= << >>
    /\ \E w \in DOMAIN writes :
          writes[w].user_req_calls = 1 /\ writes[w].user_req_result = -EROFS

(* The map entries that the index returns for the blocks of an image       *)
(* extent and that belong to one of the first n log entries constructed.   *)
StaleMapEntries(extent, n) ==
    {me \in Range(find_map_entries_locked(CurState,
                      block_extent(extent[1], extent[2]))) :
        me.log_entry <= n}

(* C23: once invalidate has completed with success the index returns, for  *)
(* any block of the image, no map entry of a log entry written before, so  *)
(* that reads of those blocks go to the lower layer.                       *)
C23_InvalidateLeavesNoMapEntry ==
    \A d \in DOMAIN discards :
       (/\ discards[d].kind = "invalidate"
        /\ discards[d].stage = "done"
        /\ discards[d].r = 0)
       => StaleMapEntries(<< 0, NumBlocks >>, discards[d].entries_before) = {}

(* C24: once aio_discard has completed the index holds no map entry, of a  *)
(* log entry written before, that overlaps the block-aligned superset of   *)
(* the discarded range.                                                    *)
C24_DiscardLeavesNoMapEntry ==
    \A d \in DOMAIN discards :
       (/\ discards[d].kind = "discard"
        /\ discards[d].stage = "done"
        /\ discards[d].r = 0)
       => StaleMapEntries(discards[d].extent, discards[d].entries_before) = {}

C26_FailedWritebackIsRetried ==
    /\ [][\A d \in lower.done \ lower'.done :
             LET e == d.entry
             IN  /\ ~ entries'[e].flushing
                 /\ m_flush_ops_in_flight' = m_flush_ops_in_flight - 1
                 /\ m_flush_bytes_in_flight'
                      = m_flush_bytes_in_flight - entries[e].write_bytes
                 /\ m_wake_up_requested' /\ m_wake_up_scheduled'
                 /\ d.r < 0 =>
                      /\ ~ entries'[e].flushed
                      /\ m_dirty_log_entries' = << e >> \o m_dirty_log_entries
                 /\ d.r = 0 => entries'[e].flushed]_vars
    /\ [][\A e \in DOMAIN entries :
             (e \in DOMAIN entries' /\ entries'[e].flushed /\ ~ entries[e].flushed)
             => [entry |-> e, r |-> 0] \in lower.done \ lower'.done]_vars
    /\ [](\A e \in DOMAIN entries :
             /\ (e \in Range(worker.retiring)
                 \/ (entries[e].appended /\ entries[e].pmem_buffer = << >>))
                => entries[e].flushed
             /\ (entries[e].completed /\ entries[e].appended
                 /\ ~ entries[e].flushed /\ failure = "")
                => \/ e \in Range(m_dirty_log_entries)
                   \/ entries[e].flushing)

(* A write that failed at the lower layer has been written again and is    *)
(* flushed.                                                                *)
C26_Witness ==
    /\ lower.failures > 0
    /\ Len(entries) = 1
    /\ entries[1].flushed /\ entries[1].pmem_buffer = << >>

(* C27: the locks are taken in one order and no thread asks for m_lock,    *)
(* which is not recursive, while it holds it, also not through a context   *)
(* that a gather completes within activate(): no thread is stopped for     *)
(* good on a lock it owns.                                                 *)
C27_NoThreadWaitsForItsOwnLock ==
    failure /= "m_lock locked again by its owner"

(* C28: the hit and miss segments that aio_read records for an image       *)
(* extent follow one another without gap or overlap from the start of the  *)
(* extent to its end; a segment is a hit exactly when map entries cover    *)
(* it; a hit holds the bytes of its log entry from buffer offset (segment  *)
(* start - image offset of the log entry); the output is the segments'     *)
(* bytes in order.                                                         *)
SegmentBlocks(seg) == {seg.first + j - 1 : j \in 1 .. seg.second}

C28_ReadSegmentsTileExtent ==
    last_read.issued =>
      LET segs == last_read.m_read_extents
          extent == last_read.image_extent
      IN  /\ segs /= << >>
          /\ segs[1].first = extent[1]
          /\ \A i \in DOMAIN segs :
                /\ segs[i].second > 0
                /\ i < Len(segs) =>
                     segs[i + 1].first = segs[i].first + segs[i].second
                /\ i = Len(segs) =>
                     segs[i].first + segs[i].second = extent[1] + extent[2]
                /\ IF segs[i].entry /= 0
                   THEN SegmentBlocks(segs[i]) \subseteq last_read.covered
                   ELSE SegmentBlocks(segs[i]) \cap last_read.covered = {}
                /\ segs[i].entry /= 0 =>
                     LET log_entry == entries[segs[i].entry]
                         at == segs[i].first - log_entry.image_offset_bytes
                     IN  segs[i].bl = SubSeq(log_entry.pmem_buffer, at + 1,
                                             at + segs[i].second)
          /\ last_read.bl = ConcatBl(segs)

(* C29: alloc_write_resources gives all or nothing, whatever other calls   *)
(* run at the same time: it returns true only with the lanes and log       *)
(* entries deducted, the unpublished reserves added and one buffer         *)
(* reserved per extent; when it returns false the request holds no buffer  *)
(* and is not allocated, and the counters count nothing for it.            *)
Granted ==
    LET RECURSIVE Sum(_)
        Sum(n) == IF n = 0 THEN 0
                  ELSE (IF allocs[n].allocated THEN allocs[n].num_extents
                        ELSE 0) + Sum(n - 1)
    IN  Sum(NumAllocators)

C29_AllocIsAllOrNothing ==
    /\ m_free_lanes = MAX_CONCURRENT_WRITES - Granted
    /\ m_free_log_entries = m_total_log_entries - Granted
    /\ m_unpublished_reserves = Granted
    /\ m_free_lanes >= 0 /\ m_free_log_entries >= 0
    /\ \A t \in 1 .. NumAllocators :
          allocs[t].pc = "returned" =>
             IF allocs[t].ret
             THEN allocs[t].allocated /\ allocs[t].buffers = allocs[t].num_extents
             ELSE ~ allocs[t].allocated /\ allocs[t].buffers = 0

C29_Witness ==
    \E t, u \in 1 .. NumAllocators :
       /\ allocs[t].pc = "returned" /\ ~ allocs[t].ret
       /\ allocs[t].cancelled > 0
       /\ allocs[u].pc = "returned" /\ allocs[u].ret
       /\ m_free_log_entries = 0

(* C30: the internal flush runs on_finish only when it has seen, under     *)
(* m_lock, no flush write in flight and no dirty log entry, so that every  *)
(* log entry appended before flush was called is flushed when on_finish    *)
(* runs; otherwise the context waits on m_flush_complete_contexts and      *)
(* flush runs again for it when the work loop drains the list.             *)
FlushFinished(d) ==
    discards[d].kind = "discard" /\ discards[d].flush_calls > 0
       /\ discards[d].stage \in {"lower", "done"}

C30_FlushCompletesWhenClean ==
    /\ [][\A d \in DOMAIN discards' :
            (FlushFinished(d)' /\ ~ (d \in DOMAIN discards /\ FlushFinished(d)))
            => /\ m_flush_ops_in_flight' = 0
               /\ m_dirty_log_entries' = << >>]_vars
    /\ [](\A d \in DOMAIN discards :
            /\ FlushFinished(d) =>
                  \A e \in discards[d].appended_before : entries[e].flushed
            /\ (discards[d].kind = "discard" /\ discards[d].stage = "flush") =>
                  /\ DiscardCtx(d) \in Range(m_flush_complete_contexts)
                  /\ m_flush_ops_in_flight > 0 \/ m_dirty_log_entries /= << >>
                        \/ m_wake_up_requested \/ m_wake_up_scheduled
                        \/ worker.pc /= "idle" \/ failure /= "")

C30_Witness ==
    \E d \in DOMAIN discards :
       /\ FlushFinished(d)
       /\ discards[d].flush_calls = 2
       /\ discards[d].appended_before /= {}
       /\ failure = ""

(* C31: an appended log entry is issued for writeback, and a parked flush  *)
(* completes, without a further request from outside.  When nothing is     *)
(* left that would run by itself, no log entry waits on                    *)
(* m_dirty_log_entries and no context waits on m_flush_complete_contexts.  *)
C31_DirtyEntryIsWrittenBack ==
    NothingPending =>
       /\ m_dirty_log_entries = << >>
       /\ m_flush_complete_contexts = << >>

(* C32: at most one process_work is queued or running, and exactly one     *)
(* while m_wake_up_scheduled is set; an invocation makes at most 4 passes; *)
(* a wake_up that arrives while it runs leads to another pass or, at the   *)
(* exit, to a new process_work on the queue; with m_wake_up_enabled false  *)
(* no process_work is queued any more.                                     *)
ProcessWorkQueued ==
    Cardinality({i \in DOMAIN op_work_queue :
                   op_work_queue[i].type = "process_work"})

ProcessWorkRunning == IF worker.pc = "idle" THEN 0 ELSE 1

C32_OneProcessWorkAtATime ==
    /\ [](failure = "" =>
            /\ ProcessWorkQueued + ProcessWorkRunning <= 1
            /\ m_wake_up_scheduled <=> ProcessWorkQueued + ProcessWorkRunning = 1
            /\ worker.pc /= "idle" => worker.max_iterations \in 1 .. 4
            /\ worker.pc = "iterate" => m_wake_up_requested)
    /\ [][failure' = "" =>
            /\ ~ m_wake_up_enabled => ProcessWorkQueued' <= ProcessWorkQueued
            /\ (/\ worker.pc /= "idle" /\ worker'.pc = "idle"
                /\ m_wake_up_requested /\ m_wake_up_enabled)
               => ProcessWorkQueued' = 1 /\ m_wake_up_scheduled']_vars

C32_Witness ==
    /\ failure = ""
    /\ worker.pc = "iterate"
    /\ worker.max_iterations < 4
    /\ ProcessWorkQueued = 0

(* C33: an append batch holds at most MAX_ALLOC_PER_TRANSACTION operations *)
(* taken in order from the front of m_ops_to_append; alloc_op_log_entries  *)
(* gives them ring indices that follow one another modulo the capacity,    *)
(* from m_first_free_entry on, whatever the other work-queue threads do;   *)
(* m_log_entries and m_dirty_log_entries receive them in that order.       *)
IndicesFollow(ops, first) ==
    \A k \in DOMAIN ops :
       entries[ops[k]].log_entry_index = (first + k - 1) % m_total_log_entries

C33_BatchesTakeConsecutiveSlots ==
    /\ [](failure = "" =>
            /\ \A t \in DOMAIN appenders :
                  /\ Len(appenders[t].ops) <= MAX_ALLOC_PER_TRANSACTION
                  /\ appenders[t].pc \in {"append", "complete"} =>
                        IndicesFollow(appenders[t].ops,
                                      appenders[t].first_free_entry)
            /\ \A i \in DOMAIN m_log_entries :
                  i > 1 => entries[m_log_entries[i]].log_entry_index =
                             (entries[m_log_entries[i - 1]].log_entry_index + 1)
                                % m_total_log_entries)
    /\ [][\A t \in DOMAIN appenders :
            /\ (appenders[t].pc = "loop" /\ appenders'[t].pc = "alloc") =>
                  appenders'[t].ops \o m_ops_to_append' = m_ops_to_append
            /\ (appenders[t].pc = "alloc" /\ appenders'[t].pc = "append") =>
                  /\ appenders[t].first_free_entry = m_first_free_entry
                  /\ m_first_free_entry' =
                        (m_first_free_entry + Len(appenders[t].ops))
                           % m_total_log_entries
                  /\ m_log_entries' = m_log_entries \o appenders[t].ops
                  /\ m_dirty_log_entries' =
                        m_dirty_log_entries \o appenders[t].ops]_vars

C33_Witness ==
    \E t \in DOMAIN appenders :
       /\ appenders[t].pc = "complete"
       /\ Len(appenders[t].ops) = MAX_ALLOC_PER_TRANSACTION
       /\ appenders[t].ops_remain
       /\ entries[appenders[t].ops[1]].log_entry_index
            > entries[appenders[t].ops[MAX_ALLOC_PER_TRANSACTION]].log_entry_index
       /\ failure = ""

(* Two threads are inside append_scheduled_ops, each with a batch.         *)
TwoBatchesAtOnce ==
    \E t, u \in DOMAIN appenders :
       /\ appenders[t].pc = "complete"
       /\ appenders[u].pc \in {"alloc", "append"}

(* C34: when the slots of an append batch wrap past the end of the ring,   *)
(* append_op_log_entries flushes them in two calls, the slots up to the    *)
(* end of the ring and the slots from its start; every call of             *)
(* flush_op_log_entries gets ascending slots, so its assertion holds, and  *)
(* every slot of the batch is flushed when the batch is appended.          *)
C34_WrappedBatchFlushedInTwoRuns ==
    /\ failure /= "assert front->pmem_entry < back->pmem_entry"
    /\ failure = "" =>
         \A t \in DOMAIN appenders :
            appenders[t].pc = "complete" =>
               LET ops == appenders[t].ops
                   first == entries[ops[1]].log_entry_index
               IN  \A k \in DOMAIN ops :
                      LET slot == pool_root.log_entries[entries[ops[k]].log_entry_index]
                      IN  /\ slot.entry = ops[k]
                          /\ slot.flush_call =
                               IF entries[ops[k]].log_entry_index < first
                               THEN 2 ELSE 1

C34_Witness ==
    \E t \in DOMAIN appenders :
       /\ appenders[t].pc = "complete"
       /\ \E k \in DOMAIN appenders[t].ops :
             k > 2 /\ k < Len(appenders[t].ops)
             /\ entries[appenders[t].ops[k]].log_entry_index = 0
       /\ pool_root.log_entries[0].flush_call = 2
       /\ failure = ""

RetireAssertions ==
    {"assert !entry->flushing", "assert entry->completed",
     "assert log_entry_index == first_valid_entry"}

QueuedDirty(e) ==
    \E i \in DOMAIN m_dirty_log_entries : m_dirty_log_entries[i] = e

FlushingEntries == {e \in DOMAIN entries : entries[e].flushing}

RECURSIVE WriteBytesOf(_)
WriteBytesOf(es) ==
    IF es = {} THEN 0
    ELSE LET e == CHOOSE x \in es : TRUE
         IN  entries[e].write_bytes + WriteBytesOf(es \ {e})

C37_OneWritebackStatePerEntry ==
    failure = "" =>
       /\ \A i \in DOMAIN m_log_entries :
             LET e == m_log_entries[i]
             IN  \/ QueuedDirty(e) /\ ~ entries[e].flushing /\ ~ entries[e].flushed
                 \/ ~ QueuedDirty(e) /\ entries[e].flushing /\ ~ entries[e].flushed
                 \/ ~ QueuedDirty(e) /\ ~ entries[e].flushing /\ entries[e].flushed
       /\ m_flush_ops_in_flight = Cardinality(FlushingEntries)
       /\ m_flush_bytes_in_flight = WriteBytesOf(FlushingEntries)
       /\ \A i, j \in DOMAIN m_dirty_log_entries :
             m_dirty_log_entries[i] = m_dirty_log_entries[j] => i = j

C37_Witness ==
    /\ failure = "" /\ lower.failures = 1
    /\ \E e1, e2 \in DOMAIN entries :
          /\ entries[e1].flushing /\ QueuedDirty(e2)
          /\ m_dirty_log_entries[1] = e2
          /\ entries[e2].log_entry_index < entries[e1].log_entry_index
          /\ \E i, j \in DOMAIN m_log_entries :
                m_log_entries[i] = e1 /\ m_log_entries[j] = e2

(* C38: from a freshly created pool, m_free_log_entries, the log entries    *)
(* reserved by writes whose operations are not yet appended, the entries of *)
(* m_log_entries and the entries popped by a retire that has not yet        *)
(* credited them add up to m_total_log_entries; m_free_log_entries never    *)
(* goes below zero; and m_unpublished_reserves is the number of operations  *)
(* allocated and not yet through an append batch, 0 when nothing is in the  *)
(* pipeline.                                                                *)
InAppendBatch(e) ==
    \E t \in DOMAIN appenders :
       /\ appenders[t].pc \in {"append", "complete"}
       /\ \E i \in DOMAIN appenders[t].ops : appenders[t].ops[i] = e

ReservedNotDone(Done(_)) ==
    SeqSum([w \in DOMAIN writes |->
              IF writes[w].allocated
              THEN Len(writes[w].m_image_extents)
                   - Cardinality({e \in DOMAIN entries :
                                    entries[e].request = w /\ Done(e)})
              ELSE 0])

InLog(e) == entries[e].entry_valid = 1

ThroughAppendBatch(e) == InLog(e) /\ ~ InAppendBatch(e)

PipelineIdle ==
    /\ m_ops_to_flush = << >> /\ m_ops_to_append = << >>
    /\ \A t \in DOMAIN appenders : appenders[t].pc = "idle"
    /\ \A w \in DOMAIN writes :
          writes[w].allocated =>
             Cardinality({e \in DOMAIN entries : entries[e].request = w})
                = Len(writes[w].m_image_extents)

C38_LogEntriesAreConserved ==
    failure = "" =>
       /\ m_free_log_entries + ReservedNotDone(InLog)
            + Len(m_log_entries) + Len(worker.retiring) = m_total_log_entries
       /\ m_free_log_entries >= 0
       /\ m_unpublished_reserves = ReservedNotDone(ThroughAppendBatch)
       /\ PipelineIdle => m_unpublished_reserves = 0

C38_Witness ==
    /\ failure = ""
    /\ worker.retiring /= << >>
    /\ m_log_entries /= << >>
    /\ m_ops_to_append /= << >>
    /\ m_free_log_entries > 0
    /\ \E t \in DOMAIN appenders : appenders[t].pc = "complete"
    /\ ReservedNotDone(InLog) < m_unpublished_reserves

(* C39: for two log entries with overlapping extents, the writeback write   *)
(* of the one appended later is not issued to the lower layer before the    *)
(* writeback write of the earlier one has completed successfully: an entry  *)
(* of m_log_entries that is in flight or flushed has every overlapping      *)
(* entry before it in the list flushed.                                     *)
EntriesOverlap(e1, e2) ==
    /\ entries[e1].image_offset_bytes
          < entries[e2].image_offset_bytes + entries[e2].write_bytes
    /\ entries[e2].image_offset_bytes
          < entries[e1].image_offset_bytes + entries[e1].write_bytes

C39_OverlappingWritebackInOrder ==
    failure = "" =>
       \A i, j \in DOMAIN m_log_entries :
          LET e1 == m_log_entries[i]
              e2 == m_log_entries[j]
          IN  (i < j /\ EntriesOverlap(e1, e2)
               /\ (entries[e2].flushing \/ entries[e2].flushed))
                 => entries[e1].flushed

(* C40: a write with a zero-length extent does not change what later reads  *)
(* find in the index: whatever zero-length entries are added, at any        *)
(* offset, every block that entries with data cover stays mapped to the     *)
(* last added of them.                                                      *)
DataEntriesOn(b) ==
    {e \in DOMAIN entries :
        /\ entries[e].write_bytes > 0
        /\ entries[e].image_offset_bytes <= b
        /\ b < entries[e].image_offset_bytes + entries[e].write_bytes}

C40_ZeroLengthKeepsEarlierData ==
    failure = "" =>
       \A b \in 0 .. (MapBlocks - 1) :
          DataEntriesOn(b) /= {} =>
             \E m \in m_block_to_log_entry_map :
                /\ m.block_start <= b /\ b <= m.block_end
                /\ m.log_entry \in DataEntriesOn(b)
                /\ \A e \in DataEntriesOn(b) : e <= m.log_entry

====
